---- MODULE Spec2Model ----
(***************************************************************************)
(* Telegram-Toolkit: the multi-account SessionManager                      *)
(* (src/src/telegram/session_manager.py) as a state machine.               *)
(*                                                                         *)
(* The program runs on one asyncio event loop: a coroutine runs without    *)
(* interruption until it awaits something that really suspends (a          *)
(* transport call or a database call).  Every action below is the code of  *)
(* one coroutine between two such suspension points.  Awaiting             *)
(* TelethonClientWrapper.is_connected or .export_session_string does not   *)
(* suspend (client.py:248-250, 324-326: no inner await), so those calls    *)
(* are evaluated inside the step that makes them.                          *)
(*                                                                         *)
(* Coroutines have no identity of their own: the calls in flight are kept  *)
(* as a bag of call records.  A transport handle that nothing refers to    *)
(* any more (cache, pending auth, a call's local, a returned value) is     *)
(* dropped from the table of handles, whatever its connection state.       *)
(***************************************************************************)
EXTENDS Integers, FiniteSets, Sequences, Bags, TLC

\* ------------------------------------------------------------------ bounds
NumTasks == 2        \* coroutines (requests) that may be in flight together
MaxAccounts == 1     \* accounts 1..MaxAccounts are in the table at start
MaxImports == 2      \* rows the registration flows may insert
MaxHandles == 2      \* transport handles that may be referenced together
NumPhones == 1       \* phone numbers used by the phone+code flow
MaxTokens == 1       \* QR login tokens generate_qr_login may store
MaxMsgs == 2         \* messages in the source chat of clone_chat
BlockBytes == 2        \* bytes of a cipher block
MaxClones == 1       \* clone_chat calls that may register an operation

\* The session ids callers pass.
Ids == 1..MaxAccounts
Phones == 1..NumPhones
HandleIds == 1..MaxHandles
Tokens == 1..MaxTokens
Files == 1..NumTasks \* names of temporary files (one per request in flight)

NoId == 0            \* Python None for a session id
NoHandle == 0        \* no client object
NoPhone == 0         \* handle not opened for a phone number
NoToken == 0         \* a token generate_qr_login never returned
NoFile == 0          \* no temporary file written
NoDate == 0          \* Python None for date_from / date_to
Dates == {NoDate, 2} \* the date_from / date_to values callers pass
NoPassword == 0      \* Python None or "" for encryption_password
Passwords == {1, 2}  \* the encryption passwords callers pass
SourceChat == 1      \* source_chat_id: the chat whose messages are history
TargetChat == 2      \* target_chat_id: the destination of the clones
NoOp == 0            \* no CloneProgress object created yet
ErrorsShown == 10    \* CloneProgress.to_dict reports errors[-10:]
Modes == {"forward", "reupload", "encrypted"}

VARIABLES
    rows,               \* table "sessions": id -> row (the persisted Accounts)
    nextId,             \* next autoincrement primary key
    clients,            \* SessionManager._clients: id -> handle
    active_session_id,  \* SessionManager._active_session_id (NoId = None)
    pending_auth,       \* SessionManager._pending_auth: phone -> handle
    handles,            \* the transport handles referenced from somewhere
    calls,              \* bag of the calls in flight (position and locals)
    ret,                \* the call that has just returned or raised
    lastConn,           \* history: the connected handle a get_client that
                        \* overlapped no call last returned for the id, while
                        \* nothing disconnected, dropped or removed it
    qr_login_states,    \* routes/auth.py _qr_login_states: token -> handle
    cleanup,            \* the cleanup task of each generated QR token
    temp_files,         \* the decoded session files in temporary storage
    history,            \* the source chat of clone_chat, newest message first
    operations,         \* CloneService._operations: the CloneProgress objects
    keys,               \* EncryptedChatRegistry._keys: chat id -> password
    crypto              \* the arguments and the result of a call of the
                        \* encryption functions, which keep no state

\* No call of an encryption function is followed.
NoCrypto == [pc |-> "idle"]

\* The state outside the SessionManager and the clone service.
elsewhere == <<qr_login_states, cleanup, temp_files, history, crypto>>

\* The state outside the SessionManager.
outside == <<elsewhere, operations, keys>>

vars == <<rows, nextId, clients, active_session_id, pending_auth, handles, calls, ret, lastConn, outside>>

\* Operations that never write the connection cache or the table.
Readers == {"export_session_string", "list_sessions"}

\* pc is the await the call is suspended at ("idle": not started); for the
\* call in ret it is the await the call finished from.
NoCall ==
    [pc |-> "idle", op |-> "none", arg |-> NoId, phone |-> NoPhone, sid |-> NoId,
     h |-> NoHandle, res |-> "", val |-> NoHandle, prev |-> NoHandle,
     overlap |-> "none", seen |-> {}, size |-> 0,
     password |-> FALSE, err |-> "", token |-> NoToken, tmp |-> NoHandle,
     file |-> NoFile, include_media |-> FALSE, date_from |-> NoDate, date_to |-> NoDate,
     msgs |-> << >>, i |-> 0, log |-> << >>,
     mode |-> "", encryption_password |-> NoPassword, opid |-> NoOp,
     sent |-> << >>, outcomes |-> << >>, after |-> "",
     cloned_count |-> 0, skipped_count |-> 0, error_count |-> 0,
     sessions |-> << >>]

InFlight == BagToSet(calls)

\* No call is handing its outcome to its caller.
NoDone == ret = NoCall

OpClass(o) == IF o \in Readers THEN "readers" ELSE "writers"

Join(a, b) ==
    IF a = "writers" \/ b = "writers" THEN "writers"
    ELSE IF a = "readers" \/ b = "readers" THEN "readers"
    ELSE "none"

\* Which kinds of other calls are in flight when a call starts.
OverlapAtStart ==
    IF \E r \in InFlight : OpClass(r.op) = "writers" THEN "writers"
    ELSE IF InFlight # {} THEN "readers"
    ELSE "none"

\* A fresh call record.
NewCall(o, a, p) ==
    [NoCall EXCEPT !.op = o, !.arg = a, !.phone = p, !.overlap = OverlapAtStart]

\* The copies of the records of bag B, one pair per copy.
Copies(B) == UNION {{<<r, k>> : k \in 1..B[r]} : r \in DOMAIN B}

\* Every call in flight has now overlapped with a call of kind o.
Bump(B, o) ==
    LET F(r) == [r EXCEPT !.overlap = Join(@, OpClass(o))] IN
    [s \in {F(r) : r \in DOMAIN B} |-> Cardinality({p \in Copies(B) : F(p[1]) = s})]

One(r) == SetToBag({r})

\* The call returns v or raises; outcome names which.
Done(r, outcome, v) == [r EXCEPT !.res = outcome, !.val = v]

\* A call starts; r is its record after its first step.
Enter(r) ==
    IF r.res # "" THEN calls' = Bump(calls, r.op) /\ ret' = r
    ELSE calls' = Bump(calls, r.op) (+) One(r) /\ ret' = ret

\* The call with record old continues; r is its record after the step.
Step(old, r) ==
    IF r.res # "" THEN calls' = calls (-) One(old) /\ ret' = r
    ELSE calls' = (calls (-) One(old)) (+) One(r) /\ ret' = ret

Put(old, r, isStart) == IF isStart THEN Enter(r) ELSE Step(old, r)

\* A new request is accepted.
CanStart == NoDone /\ BagCardinality(calls) < NumTasks

\* Handles still to be constructed by calls in flight (a handle is reserved
\* when the call starts so that no call blocks on the bound).
Constructors == {"get_client", "switch_session", "request_code", "import_session_string", "check_qr_status",
                 "import_session_file", "clone_chat"}
Reserved == Cardinality({p \in Copies(calls) : p[1].op \in Constructors /\ p[1].h = NoHandle})
CanConstruct == Cardinality(DOMAIN handles) + Reserved < MaxHandles

\* The identity of the next client object.
FreshHandle == CHOOSE h \in HandleIds : h \notin DOMAIN handles /\ \A g \in 1..(h - 1) : g \in DOMAIN handles

\* get_client(session=...): a new, unconnected transport handle.
NewHandle(acct, phone) == [connected |-> FALSE, acct |-> acct, phone |-> phone]

Range(f) == {f[x] : x \in DOMAIN f}

\* The handles something still refers to keep their place in the table.
Keep(hs) ==
    LET roots == Range(clients') \cup Range(pending_auth') \cup Range(lastConn')
                 \cup {r.h : r \in BagToSet(calls')} \cup {ret'.h, ret'.val, ret'.prev}
                 \cup Range(qr_login_states') \cup {c.h : c \in Range(cleanup')}
                 \cup {r.tmp : r \in BagToSet(calls')} \cup {ret'.tmp}
    IN  [h \in DOMAIN hs \cap roots |-> hs[h]]

SetConnected(hs, h, b) == [hs EXCEPT ![h].connected = b]

\* A disconnect() call on h has completed: ok closes the connection, a failure
\* leaves the handle as it was.
Disconnected(hs, h, ok) == [hs EXCEPT ![h].connected = IF ok THEN FALSE ELSE @]

Forget(lc, h) == [i \in Ids |-> IF lc[i] = h THEN NoHandle ELSE lc[i]]

Without(f, k) == [i \in DOMAIN f \ {k} |-> f[i]]

\* A process start: nothing cached, no active session, no pending auth; the
\* table holds the accounts 1..k registered by earlier runs (models/session.py
\* gives every row is_active=True).
StoredRows(k) == [i \in 1..k |-> [is_active |-> TRUE]]

InitWith(k) ==
    /\ rows = StoredRows(k)
    /\ nextId = k + 1
    /\ clients = << >>
    /\ active_session_id = NoId
    /\ pending_auth = << >>
    /\ handles = << >>
    /\ calls = EmptyBag
    /\ ret = NoCall
    /\ lastConn = [i \in Ids |-> NoHandle]
    /\ qr_login_states = << >>
    /\ cleanup = << >>
    /\ temp_files = {}
    /\ history = << >>
    /\ operations = << >>
    /\ keys = << >>
    /\ crypto = NoCrypto

\* The registry operations run over a table with accounts in it.
Init == InitWith(MaxAccounts)

\* The registration flows start from an empty table.
InitAuth == InitWith(0)

\* ------------------------------------------------------------ get_client
\* get_client returns handle h to its caller; inside switch_session the
\* caller then sets the active pointer and returns.
get_client_return(old, r, h, isStart) ==
    /\ Put(old, IF r.op = "clone_chat" THEN [r EXCEPT !.pc = "cl_fetch", !.h = h]
                ELSE Done([r EXCEPT !.prev = lastConn[r.sid]], "ok", h), isStart)
    /\ active_session_id' = IF r.op = "switch_session" THEN r.arg ELSE active_session_id
    /\ lastConn' = IF r.overlap # "none" THEN lastConn
                   ELSE [lastConn EXCEPT ![r.sid] = IF handles[h].connected THEN h ELSE NoHandle]

\* Variant of get_client_entry: the cache is not consulted, every call loads
\* the row and connects a new handle.
get_client_entry_nocache(old, r, isStart) ==
    LET sid == IF r.arg = NoId THEN active_session_id ELSE r.arg IN
    IF sid = NoId THEN
        /\ Put(old, Done(r, "NoActiveAccount", NoHandle), isStart)
        /\ UNCHANGED <<active_session_id, lastConn>>
    ELSE
        /\ Put(old, [r EXCEPT !.sid = sid, !.pc = "gc_select"], isStart)
        /\ UNCHANGED <<active_session_id, lastConn>>

\* Variant of get_client_entry: the second None test (lines 342-343) is
\* missing, so an unset pointer is looked up like an id.
get_client_entry_nonone(old, r, isStart) ==
    LET sid == IF r.arg = NoId THEN active_session_id ELSE r.arg IN
    IF sid \in DOMAIN clients /\ handles[clients[sid]].connected THEN
        get_client_return(old, [r EXCEPT !.sid = sid], clients[sid], isStart)
    ELSE
        /\ Put(old, [r EXCEPT !.sid = sid, !.pc = "gc_select"], isStart)
        /\ UNCHANGED <<active_session_id, lastConn>>

\* Lines 339-350: resolve the id, fail without an active session, return the
\* cached handle when it is connected, else go and load the row.
get_client_entry(old, r, isStart) ==
    LET sid == IF r.arg = NoId THEN active_session_id ELSE r.arg IN
    IF sid = NoId THEN
        /\ Put(old, Done(r, "NoActiveAccount", NoHandle), isStart)
        /\ UNCHANGED <<active_session_id, lastConn>>
    ELSE IF sid \in DOMAIN clients /\ handles[clients[sid]].connected THEN
        get_client_return(old, [r EXCEPT !.sid = sid], clients[sid], isStart)
    ELSE
        /\ Put(old, [r EXCEPT !.sid = sid, !.pc = "gc_select"], isStart)
        /\ UNCHANGED <<active_session_id, lastConn>>

get_client_start ==
    /\ CanStart
    /\ CanConstruct
    /\ \E a \in Ids \cup {NoId} :
          LET r == NewCall("get_client", a, NoPhone) IN get_client_entry(r, r, TRUE)
    /\ UNCHANGED <<rows, nextId, clients, pending_auth, outside>>
    /\ handles' = Keep(handles)

\* Lines 352-365: the SELECT has returned; without a row the call fails,
\* with one the client is constructed and connect() is awaited.
get_client_select ==
    /\ NoDone
    /\ \E r \in InFlight :
          /\ r.pc = "gc_select"
          /\ UNCHANGED <<rows, nextId, clients, active_session_id, pending_auth, outside, lastConn>>
          /\ IF r.sid \in DOMAIN rows THEN
                /\ Step(r, [r EXCEPT !.pc = "gc_connect", !.h = FreshHandle])
                /\ handles' = Keep((FreshHandle :> NewHandle(r.sid, NoPhone)) @@ handles)
             ELSE
                /\ Step(r, Done(r, "NotFound", NoHandle))
                /\ handles' = Keep(handles)

\* Lines 365-374: connect() has completed; on success the row is touched,
\* the handle is cached and the commit of get_db() is awaited.
get_client_connect ==
    /\ NoDone
    /\ \E r \in InFlight : \E ok \in BOOLEAN :
          /\ r.pc = "gc_connect"
          /\ UNCHANGED <<rows, nextId, active_session_id, pending_auth, outside, lastConn>>
          /\ IF ok THEN
                /\ clients' = (r.sid :> r.h) @@ clients
                /\ Step(r, [r EXCEPT !.pc = "gc_commit"])
                /\ handles' = Keep(SetConnected(handles, r.h, TRUE))
             ELSE
                /\ Step(r, Done(r, "TransportError", NoHandle))
                /\ UNCHANGED clients
                /\ handles' = Keep(handles)

\* database.py:85: the commit flushes the UPDATE of last_used_at; when the
\* row has been deleted meanwhile the ORM reports stale data or the UPDATE
\* matches nothing, depending on the driver.
get_client_commit ==
    /\ NoDone
    /\ \E r \in InFlight :
          /\ r.pc = "gc_commit"
          /\ \/ get_client_return(r, r, r.h, FALSE)
             \/ /\ r.sid \notin DOMAIN rows
                /\ Step(r, Done(r, "StaleData", NoHandle))
                /\ UNCHANGED <<active_session_id, lastConn>>
    /\ UNCHANGED <<rows, nextId, clients, pending_auth, outside>>
    /\ handles' = Keep(handles)

\* -------------------------------------------------- import_session_string
\* Calls that will still insert a row.
InsertAhead == {"im_connect", "im_auth", "im_me", "im_insert", "vc_sign_in", "vc_password", "vc_insert", "qs_wait",
                "sf_connect", "sf_auth", "sf_close"}
Inserting == Cardinality({p \in Copies(calls) : p[1].pc \in InsertAhead})

\* Lines 270-271: the client is constructed and connect() is awaited.
import_session_string_start ==
    /\ CanStart
    /\ CanConstruct
    /\ nextId + Inserting <= MaxImports
    /\ Enter([NewCall("import_session_string", NoId, NoPhone)
                EXCEPT !.pc = "im_connect", !.h = FreshHandle])
    /\ UNCHANGED <<rows, nextId, clients, active_session_id, pending_auth, outside, lastConn>>
    /\ handles' = Keep((FreshHandle :> NewHandle(NoId, NoPhone)) @@ handles)

\* Variant of import_session_file_finally: the file is removed on the
\* success path only.
import_session_file_finally_onlyok(r, outcome, v) ==
    /\ temp_files' = IF outcome = "ok" THEN temp_files \ {r.file} ELSE temp_files
    /\ UNCHANGED <<qr_login_states, cleanup, history, operations, keys, crypto>>
    /\ Step(r, Done(r, outcome, v))

\* routes/auth.py 358-366: whatever way the try block of import_session_file
\* is left, the temporary file is removed before the route answers.
import_session_file_finally(r, outcome, v) ==
    /\ temp_files' = temp_files \ {r.file}
    /\ UNCHANGED <<qr_login_states, cleanup, history, operations, keys, crypto>>
    /\ Step(r, Done(r, outcome, v))

\* import_session_string returns v or raises to its caller.  Called from
\* check_qr_status (routes/auth.py 278-298) the route goes on in the same
\* step: it pops the token and awaits the disconnect() of its own client, on
\* the success path or in the except clause.  Called from
\* import_session_file (352-361) the finally clause runs.
import_session_string_return(r, outcome, v) ==
    IF r.op = "import_session_file" THEN
        import_session_file_finally(r, outcome, v)
    ELSE IF r.op = "check_qr_status" THEN
        /\ qr_login_states' = Without(qr_login_states, r.token)
        /\ UNCHANGED <<cleanup, temp_files, history, operations, keys, crypto>>
        /\ Step(r, IF outcome \in {"ok", "None"}
                   THEN [r EXCEPT !.pc = "qs_close", !.val = v]
                   ELSE [r EXCEPT !.pc = "qs_disc", !.err = outcome, !.h = NoHandle])
    ELSE
        /\ UNCHANGED outside
        /\ Step(r, Done(r, outcome, v))

\* Line 271: connect() has completed.
import_session_string_connect ==
    /\ NoDone
    /\ \E r \in InFlight : \E ok \in BOOLEAN :
          /\ r.pc = "im_connect"
          /\ UNCHANGED <<rows, nextId, clients, active_session_id, pending_auth, lastConn>>
          /\ IF ok THEN
                /\ Step(r, [r EXCEPT !.pc = "im_auth"])
                /\ UNCHANGED outside
                /\ handles' = Keep(SetConnected(handles, r.h, TRUE))
             ELSE
                /\ import_session_string_return(r, "TransportError", NoHandle)
                /\ handles' = Keep(handles)

\* Lines 273-278: is_user_authorized() has answered.
import_session_string_authorized ==
    /\ NoDone
    /\ \E r \in InFlight : \E authorized \in BOOLEAN :
          /\ r.pc = "im_auth"
          /\ Step(r, [r EXCEPT !.pc = IF authorized THEN "im_me" ELSE "im_disc"])
    /\ UNCHANGED <<rows, nextId, clients, active_session_id, pending_auth, outside, lastConn>>
    /\ handles' = Keep(handles)

\* Variant of import_session_string_reject: line 274 is missing, the call
\* raises without disconnecting.
import_session_string_reject_nodisc ==
    /\ NoDone
    /\ \E r \in InFlight :
          /\ r.pc = "im_disc"
          /\ import_session_string_return(r, "InvalidCredential", NoHandle)
          /\ UNCHANGED <<rows, nextId, clients, active_session_id, pending_auth, lastConn>>
          /\ handles' = Keep(handles)

\* Lines 274-275: the disconnect of the unauthorized handle has completed.
import_session_string_reject ==
    /\ NoDone
    /\ \E r \in InFlight : \E ok \in BOOLEAN :
          /\ r.pc = "im_disc"
          /\ import_session_string_return(r, IF ok THEN "InvalidCredential" ELSE "TransportError", NoHandle)
          /\ UNCHANGED <<rows, nextId, clients, active_session_id, pending_auth, lastConn>>
          /\ handles' = Keep(Disconnected(handles, r.h, ok))

\* Line 278: get_me() has completed; the INSERT is flushed next.
import_session_string_get_me ==
    /\ NoDone
    /\ \E r \in InFlight : \E ok \in BOOLEAN :
          /\ r.pc = "im_me"
          /\ IF ok THEN Step(r, [r EXCEPT !.pc = "im_insert"]) /\ UNCHANGED outside
             ELSE import_session_string_return(r, "TransportError", NoHandle)
    /\ UNCHANGED <<rows, nextId, clients, active_session_id, pending_auth, lastConn>>
    /\ handles' = Keep(handles)

\* Lines 281-306: the row is inserted with is_active=True and committed, the
\* handle is cached under the new id, the active pointer is set and
\* get_session's SELECT is awaited.
import_session_string_insert ==
    /\ NoDone
    /\ \E r \in InFlight : \E ok \in BOOLEAN :
          /\ r.pc = "im_insert"
          /\ UNCHANGED <<pending_auth, lastConn>>
          /\ IF ok THEN
                /\ rows' = (nextId :> [is_active |-> TRUE]) @@ rows
                /\ nextId' = nextId + 1
                /\ clients' = (nextId :> r.h) @@ clients
                /\ active_session_id' = nextId
                /\ Step(r, [r EXCEPT !.pc = "im_get", !.sid = nextId])
                /\ UNCHANGED outside
                /\ handles' = Keep([handles EXCEPT ![r.h].acct = nextId])
             ELSE
                /\ import_session_string_return(r, "DbError", NoHandle)
                /\ UNCHANGED <<rows, nextId, clients, active_session_id>>
                /\ handles' = Keep(handles)

\* Line 306 with get_session (104-128): None when the row is gone again.
import_session_string_get ==
    /\ NoDone
    /\ \E r \in InFlight :
          /\ r.pc = "im_get"
          /\ IF r.sid \in DOMAIN rows THEN import_session_string_return(r, "ok", r.h)
             ELSE import_session_string_return(r, "None", NoHandle)
    /\ UNCHANGED <<rows, nextId, clients, active_session_id, pending_auth, lastConn>>
    /\ handles' = Keep(handles)

\* --------------------------------------------------------- remove_session
\* Lines 133-134: with a cached handle its disconnect() is awaited, else the
\* SELECT is.
remove_session_start ==
    /\ CanStart
    /\ \E a \in Ids :
          LET r == [NewCall("remove_session", a, NoPhone) EXCEPT !.sid = a] IN
          /\ Enter(IF a \in DOMAIN clients
                   THEN [r EXCEPT !.pc = "rm_disc", !.h = clients[a]]
                   ELSE [r EXCEPT !.pc = "rm_select"])
          /\ lastConn' = [lastConn EXCEPT ![a] = NoHandle]
    /\ UNCHANGED <<rows, nextId, clients, active_session_id, pending_auth, outside>>
    /\ handles' = Keep(handles)

\* Variant of remove_session_disconnect: line 135 (del) is missing.
remove_session_disconnect_noevict ==
    /\ NoDone
    /\ \E r \in InFlight : \E ok \in BOOLEAN :
          /\ r.pc = "rm_disc"
          /\ UNCHANGED <<rows, nextId, clients, active_session_id, pending_auth, outside, lastConn>>
          /\ Step(r, IF ok THEN [r EXCEPT !.pc = "rm_select"]
                     ELSE Done(r, "TransportError", NoHandle))
          /\ handles' = Keep(Disconnected(handles, r.h, ok))

\* Lines 134-141: disconnect() has completed; a failure propagates, else the
\* key is deleted from the cache (KeyError when it is no longer there).
remove_session_disconnect ==
    /\ NoDone
    /\ \E r \in InFlight : \E ok \in BOOLEAN :
          /\ r.pc = "rm_disc"
          /\ UNCHANGED <<rows, nextId, active_session_id, pending_auth, outside, lastConn>>
          /\ IF ~ok THEN
                /\ Step(r, Done(r, "TransportError", NoHandle))
                /\ UNCHANGED clients
             ELSE IF r.sid \in DOMAIN clients THEN
                /\ clients' = Without(clients, r.sid)
                /\ Step(r, [r EXCEPT !.pc = "rm_select"])
             ELSE
                /\ Step(r, Done(r, "KeyError", NoHandle))
                /\ UNCHANGED clients
          /\ handles' = Keep(Disconnected(handles, r.h, ok))

\* Lines 138-146: the SELECT has returned.
remove_session_select ==
    /\ NoDone
    /\ \E r \in InFlight :
          /\ r.pc = "rm_select"
          /\ Step(r, IF r.sid \in DOMAIN rows THEN [r EXCEPT !.pc = "rm_commit"]
                     ELSE Done(r, "not_found", NoHandle))
    /\ UNCHANGED <<rows, nextId, clients, active_session_id, pending_auth, outside, lastConn>>
    /\ handles' = Keep(handles)

\* Lines 144-145 and database.py:85: the DELETE is flushed by the commit.
remove_session_commit ==
    /\ NoDone
    /\ \E r \in InFlight :
          /\ r.pc = "rm_commit"
          /\ rows' = Without(rows, r.sid)
          /\ Step(r, Done(r, "ok", NoHandle))
    /\ UNCHANGED <<nextId, clients, active_session_id, pending_auth, outside, lastConn>>
    /\ handles' = Keep(handles)

\* -------------------------------------------------- export_session_string
\* Variant of export_session_string_start: the test of line 313 is missing,
\* so the credential always comes from the table.
export_session_string_start_stored ==
    /\ CanStart
    /\ \E a \in Ids :
          Enter([NewCall("export_session_string", a, NoPhone) EXCEPT !.sid = a, !.pc = "ex_select"])
    /\ UNCHANGED <<rows, nextId, clients, active_session_id, pending_auth, outside, lastConn>>
    /\ handles' = Keep(handles)

\* Lines 313-320: the wrapper's export_session_string (client.py 324-326)
\* awaits nothing, so with a cached handle the call ends in its first step.
export_session_string_start ==
    /\ CanStart
    /\ \E a \in Ids :
          LET r == [NewCall("export_session_string", a, NoPhone) EXCEPT !.sid = a] IN
          Enter(IF a \in DOMAIN clients THEN Done(r, "ok", clients[a])
                ELSE [r EXCEPT !.pc = "ex_select"])
    /\ UNCHANGED <<rows, nextId, clients, active_session_id, pending_auth, outside, lastConn>>
    /\ handles' = Keep(handles)

\* Variant of export_session_string_select: the test of lines 322-323 is
\* missing, so a missing row fails inside decrypt_data.
export_session_string_select_nocheck ==
    /\ NoDone
    /\ \E r \in InFlight :
          /\ r.pc = "ex_select"
          /\ Step(r, IF r.sid \in DOMAIN rows THEN Done(r, "ok", NoHandle)
                     ELSE Done(r, "AttributeError", NoHandle))
    /\ UNCHANGED <<rows, nextId, clients, active_session_id, pending_auth, outside, lastConn>>
    /\ handles' = Keep(handles)

\* Lines 321-325.
export_session_string_select ==
    /\ NoDone
    /\ \E r \in InFlight :
          /\ r.pc = "ex_select"
          /\ Step(r, IF r.sid \in DOMAIN rows THEN Done(r, "ok", NoHandle)
                     ELSE Done(r, "NotFound", NoHandle))
    /\ UNCHANGED <<rows, nextId, clients, active_session_id, pending_auth, outside, lastConn>>
    /\ handles' = Keep(handles)

\* ---------------------------------------------------------- list_sessions
\* Lines 79-82: the session of get_db is opened and the SELECT is awaited.
list_sessions_start ==
    /\ CanStart
    /\ Enter([NewCall("list_sessions", NoId, NoPhone) EXCEPT !.pc = "ls_select"])
    /\ UNCHANGED <<rows, nextId, clients, active_session_id, pending_auth, outside, lastConn>>
    /\ handles' = Keep(handles)

\* Variant of list_sessions_is_connected: the flag of get_session (line
\* 125), which asks the cache only.
list_sessions_is_connected_cached(s) == s \in DOMAIN clients

\* Line 97: is_connected() of the wrapper (client.py 248-250) awaits
\* nothing, so the flag is read in the step that builds the list.
list_sessions_is_connected(s) ==
    s \in DOMAIN clients /\ handles[clients[s]].connected

\* Lines 83-101: the rows arrive and the list is built, one SessionInfo per
\* row with its flag; leaving get_db awaits the commit (database.py 85).
list_sessions_select ==
    /\ NoDone
    /\ \E r \in InFlight :
          /\ r.pc = "ls_select"
          /\ Step(r, [r EXCEPT !.pc = "ls_commit",
                               !.sessions = [s \in DOMAIN rows |-> list_sessions_is_connected(s)]])
    /\ UNCHANGED <<rows, nextId, clients, active_session_id, pending_auth, outside, lastConn>>
    /\ handles' = Keep(handles)

\* The commit is over: the list is returned.
list_sessions_commit ==
    /\ NoDone
    /\ \E r \in InFlight :
          /\ r.pc = "ls_commit"
          /\ Step(r, Done(r, "ok", NoHandle))
    /\ UNCHANGED <<rows, nextId, clients, active_session_id, pending_auth, outside, lastConn>>
    /\ handles' = Keep(handles)

\* --------------------------------------------------------- switch_session
\* Variant of switch_session_start: the pointer is set before the account
\* is validated.
switch_session_start_eager ==
    /\ CanStart
    /\ CanConstruct
    /\ \E a \in Ids :
          /\ Enter([NewCall("switch_session", a, NoPhone) EXCEPT !.pc = "sw_select"])
          /\ active_session_id' = a
    /\ UNCHANGED <<rows, nextId, clients, pending_auth, outside, lastConn>>
    /\ handles' = Keep(handles)

\* Line 379: get_session's SELECT is awaited.
switch_session_start ==
    /\ CanStart
    /\ CanConstruct
    /\ \E a \in Ids :
          Enter([NewCall("switch_session", a, NoPhone) EXCEPT !.pc = "sw_select"])
    /\ UNCHANGED <<rows, nextId, clients, active_session_id, pending_auth, outside, lastConn>>
    /\ handles' = Keep(handles)

\* Lines 380-389: without a row the call fails; with one get_client(id) runs
\* (its later steps are the get_client actions) and then the pointer is set.
switch_session_select ==
    /\ NoDone
    /\ \E r \in InFlight :
          /\ r.pc = "sw_select"
          /\ IF r.arg \in DOMAIN rows THEN get_client_entry(r, r, FALSE)
             ELSE /\ Step(r, Done(r, "NotFound", NoHandle))
                  /\ UNCHANGED <<active_session_id, lastConn>>
    /\ UNCHANGED <<rows, nextId, clients, pending_auth, outside>>
    /\ handles' = Keep(handles)

\* --------------------------------------------------------- disconnect_all
\* Lines 398-404.  The loop iterates the live dict: the iterator remembers
\* the size it started with and how many items it has produced.
disconnect_all_next(old, r, isStart) ==
    IF Cardinality(DOMAIN clients) # r.size THEN
        /\ Put(old, Done(r, "RuntimeError", NoHandle), isStart)
        /\ UNCHANGED <<clients, active_session_id>>
    ELSE IF DOMAIN clients \ r.seen = {} THEN
        /\ clients' = << >>
        /\ active_session_id' = NoId
        /\ Put(old, Done(r, "ok", NoHandle), isStart)
    ELSE IF Cardinality(r.seen) >= r.size THEN
        /\ Put(old, Done(r, "RuntimeError", NoHandle), isStart)
        /\ UNCHANGED <<clients, active_session_id>>
    ELSE
        /\ \E i \in DOMAIN clients \ r.seen :
              Put(old, [r EXCEPT !.pc = "da_disc", !.h = clients[i], !.seen = @ \cup {i}], isStart)
        /\ UNCHANGED <<clients, active_session_id>>

disconnect_all_start ==
    /\ CanStart
    /\ LET r == [NewCall("disconnect_all", NoId, NoPhone) EXCEPT !.size = Cardinality(DOMAIN clients)]
       IN  disconnect_all_next(r, r, TRUE)
    /\ lastConn' = [i \in Ids |-> NoHandle]
    /\ UNCHANGED <<rows, nextId, pending_auth, outside>>
    /\ handles' = Keep(handles)

\* Variant of disconnect_all_disconnect: no try/except around disconnect().
disconnect_all_disconnect_raise ==
    /\ NoDone
    /\ \E r \in InFlight : \E ok \in BOOLEAN :
          /\ r.pc = "da_disc"
          /\ UNCHANGED <<rows, nextId, pending_auth, outside, lastConn>>
          /\ IF ok THEN disconnect_all_next(r, r, FALSE)
             ELSE /\ Step(r, Done(r, "TransportError", NoHandle))
                  /\ UNCHANGED <<clients, active_session_id>>
          /\ handles' = Keep(Disconnected(handles, r.h, ok))

\* Lines 399-402: disconnect() has completed, a failure is swallowed.
disconnect_all_disconnect ==
    /\ NoDone
    /\ \E r \in InFlight : \E ok \in BOOLEAN :
          /\ r.pc = "da_disc"
          /\ UNCHANGED <<rows, nextId, pending_auth, outside, lastConn>>
          /\ disconnect_all_next(r, r, FALSE)
          /\ handles' = Keep(Disconnected(handles, r.h, ok))

\* ----------------------------------------------------------- request_code
\* Lines 162-163.
request_code_start ==
    /\ CanStart
    /\ CanConstruct
    /\ \E p \in Phones :
          /\ Enter([NewCall("request_code", NoId, p) EXCEPT !.pc = "rc_connect", !.h = FreshHandle])
          /\ UNCHANGED <<rows, nextId, clients, active_session_id, pending_auth, outside, lastConn>>
          /\ handles' = Keep((FreshHandle :> NewHandle(NoId, p)) @@ handles)

\* Lines 163-166: connect() has completed.
request_code_connect ==
    /\ NoDone
    /\ \E r \in InFlight : \E ok \in BOOLEAN :
          /\ r.pc = "rc_connect"
          /\ UNCHANGED <<rows, nextId, clients, active_session_id, pending_auth, outside, lastConn>>
          /\ IF ok THEN
                /\ Step(r, [r EXCEPT !.pc = "rc_send"])
                /\ handles' = Keep(SetConnected(handles, r.h, TRUE))
             ELSE
                /\ Step(r, Done(r, "TransportError", NoHandle))
                /\ handles' = Keep(handles)

\* Lines 166-179: send_code_request() has completed; the entry for the phone
\* is stored over whatever was there.
request_code_send ==
    /\ NoDone
    /\ \E r \in InFlight : \E ok \in BOOLEAN :
          /\ r.pc = "rc_send"
          /\ UNCHANGED <<rows, nextId, clients, active_session_id, lastConn>>
          /\ IF ok THEN
                /\ pending_auth' = (r.phone :> r.h) @@ pending_auth
                /\ UNCHANGED outside
                /\ Step(r, Done(r, "ok", r.h))
             ELSE
                /\ Step(r, Done(r, "TransportError", NoHandle))
                /\ UNCHANGED <<pending_auth, outside>>
          /\ handles' = Keep(handles)

\* ------------------------------------------------------------ verify_code
\* The except clause of lines 247-249: the failure is kept and the
\* disconnect() of the client is awaited.  (The password argument is kept in
\* the record only until sign_in has used it.)
verify_code_except(r, e) == [r EXCEPT !.pc = "vc_disc", !.err = e, !.password = FALSE]

\* Variant of verify_code_start: the test of lines 198-199 is missing, so
\* the lookup of line 201 raises for a phone without an entry.
verify_code_start_nocheck ==
    /\ CanStart
    /\ \E p \in Phones : \E pw \in BOOLEAN :
          LET r == [NewCall("verify_code", NoId, p) EXCEPT !.password = pw] IN
          /\ p \in DOMAIN pending_auth => nextId + Inserting <= MaxImports
          /\ Enter(IF p \notin DOMAIN pending_auth THEN Done(r, "KeyError", NoHandle)
                   ELSE [r EXCEPT !.pc = "vc_sign_in", !.h = pending_auth[p]])
    /\ UNCHANGED <<rows, nextId, clients, active_session_id, pending_auth, outside, lastConn>>
    /\ handles' = Keep(handles)

\* Lines 198-211: without an entry for the phone the call fails at once;
\* with one, sign_in on the entry's client is awaited.
verify_code_start ==
    /\ CanStart
    /\ \E p \in Phones : \E pw \in BOOLEAN :
          LET r == [NewCall("verify_code", NoId, p) EXCEPT !.password = pw] IN
          /\ p \in DOMAIN pending_auth => nextId + Inserting <= MaxImports
          /\ Enter(IF p \notin DOMAIN pending_auth THEN Done(r, "NoPendingAuth", NoHandle)
                   ELSE [r EXCEPT !.pc = "vc_sign_in", !.h = pending_auth[p]])
    /\ UNCHANGED <<rows, nextId, clients, active_session_id, pending_auth, outside, lastConn>>
    /\ handles' = Keep(handles)

\* What the transport's sign_in(phone, code, hash) can answer: a request on
\* a handle that is not connected fails.
SignInOutcomes(h) ==
    IF handles[h].connected THEN {"ok", "password_needed", "error"} ELSE {"error"}

\* client.py 283-292: the first sign_in has answered.  A two-factor
\* requirement without a password raises, with one the password sign-in is
\* awaited; any other failure propagates.
verify_code_sign_in ==
    /\ NoDone
    /\ \E r \in InFlight : \E o \in SignInOutcomes(r.h) :
          /\ r.pc = "vc_sign_in"
          /\ Step(r, CASE o = "ok" -> [r EXCEPT !.pc = "vc_insert", !.password = FALSE]
                       [] o = "password_needed" /\ r.password -> [r EXCEPT !.pc = "vc_password"]
                       [] o = "password_needed" /\ ~r.password -> verify_code_except(r, "TwoFactorRequired")
                       [] OTHER -> verify_code_except(r, "SignInError"))
    /\ UNCHANGED <<rows, nextId, clients, active_session_id, pending_auth, outside, lastConn>>
    /\ handles' = Keep(handles)

\* client.py 290: sign_in(password=...) has answered.
verify_code_password ==
    /\ NoDone
    /\ \E r \in InFlight : \E ok \in BOOLEAN :
          /\ r.pc = "vc_password"
          /\ Step(r, IF ok THEN [r EXCEPT !.pc = "vc_insert", !.password = FALSE]
                     ELSE verify_code_except(r, "SignInError"))
    /\ UNCHANGED <<rows, nextId, clients, active_session_id, pending_auth, outside, lastConn>>
    /\ handles' = Keep(handles)

\* Variant of verify_code_insert: line 243 (del) is missing.
verify_code_insert_keep ==
    /\ NoDone
    /\ \E r \in InFlight : \E ok \in BOOLEAN :
          /\ r.pc = "vc_insert"
          /\ UNCHANGED <<lastConn, outside, pending_auth>>
          /\ IF ok THEN
                /\ rows' = (nextId :> [is_active |-> TRUE]) @@ rows
                /\ nextId' = nextId + 1
                /\ clients' = (nextId :> r.h) @@ clients
                /\ active_session_id' = nextId
                /\ Step(r, [r EXCEPT !.pc = "vc_get", !.sid = nextId])
                /\ handles' = Keep([handles EXCEPT ![r.h].acct = nextId])
             ELSE
                /\ Step(r, verify_code_except(r, "DbError"))
                /\ UNCHANGED <<rows, nextId, clients, active_session_id>>
                /\ handles' = Keep(handles)

\* Lines 214-245: the row is inserted with is_active=True and committed, the
\* client is cached under the new id, the active pointer is set, the entry
\* of the phone is deleted (KeyError when it is no longer there) and
\* get_session's SELECT is awaited.  A failure of the database goes to the
\* except clause.
verify_code_insert ==
    /\ NoDone
    /\ \E r \in InFlight : \E ok \in BOOLEAN :
          /\ r.pc = "vc_insert"
          /\ UNCHANGED <<lastConn, outside>>
          /\ IF ok THEN
                /\ rows' = (nextId :> [is_active |-> TRUE]) @@ rows
                /\ nextId' = nextId + 1
                /\ clients' = (nextId :> r.h) @@ clients
                /\ active_session_id' = nextId
                /\ IF r.phone \in DOMAIN pending_auth THEN
                      /\ pending_auth' = Without(pending_auth, r.phone)
                      /\ Step(r, [r EXCEPT !.pc = "vc_get", !.sid = nextId])
                   ELSE
                      /\ UNCHANGED pending_auth
                      /\ Step(r, verify_code_except([r EXCEPT !.sid = nextId], "KeyError"))
                /\ handles' = Keep([handles EXCEPT ![r.h].acct = nextId])
             ELSE
                /\ Step(r, verify_code_except(r, "DbError"))
                /\ UNCHANGED <<rows, nextId, clients, active_session_id, pending_auth>>
                /\ handles' = Keep(handles)

\* Line 245 with get_session (104-128): None when the row is gone again.
verify_code_get ==
    /\ NoDone
    /\ \E r \in InFlight :
          /\ r.pc = "vc_get"
          /\ Step(r, IF r.sid \in DOMAIN rows THEN Done(r, "ok", r.h)
                     ELSE Done(r, "None", NoHandle))
    /\ UNCHANGED <<rows, nextId, clients, active_session_id, pending_auth, outside, lastConn>>
    /\ handles' = Keep(handles)

\* Lines 249-250: the disconnect() of the except clause has completed and
\* the failure is raised again; a failing disconnect() is raised in its
\* place.  The entry of the phone stays where it is.
verify_code_disconnect ==
    /\ NoDone
    /\ \E r \in InFlight : \E ok \in BOOLEAN :
          /\ r.pc = "vc_disc"
          /\ Step(r, Done(r, IF ok THEN r.err ELSE "TransportError", NoHandle))
          /\ UNCHANGED <<rows, nextId, clients, active_session_id, pending_auth, outside, lastConn>>
          /\ handles' = Keep(Disconnected(handles, r.h, ok))

\* ------------------------------------------------------ generate_qr_login
\* The tokens no generate_qr_login has used (uuid4 gives a new one each time).
FreeTokens == Tokens \ (DOMAIN cleanup \cup {r.token : r \in InFlight})

\* The cleanup task of a token: asleep, awaiting disconnect(), or finished.
CleanupTask(pc, h, res) == [pc |-> pc, h |-> h, res |-> res]

\* routes/auth.py 199-209: the token is drawn, the client is constructed and
\* connect() is awaited.
generate_qr_login_start ==
    /\ CanStart
    /\ CanConstruct
    /\ FreeTokens # {}
    /\ LET t == CHOOSE t \in FreeTokens : \A u \in FreeTokens : t <= u IN
       Enter([NewCall("generate_qr_login", NoId, NoPhone)
                EXCEPT !.pc = "qg_connect", !.token = t, !.tmp = FreshHandle])
    /\ UNCHANGED <<rows, nextId, clients, active_session_id, pending_auth, outside, lastConn>>
    /\ handles' = Keep((FreshHandle :> NewHandle(NoId, NoPhone)) @@ handles)

\* Lines 209-212: connect() has completed; qr_login() is awaited.
generate_qr_login_connect ==
    /\ NoDone
    /\ \E r \in InFlight : \E ok \in BOOLEAN :
          /\ r.pc = "qg_connect"
          /\ UNCHANGED <<rows, nextId, clients, active_session_id, pending_auth, outside, lastConn>>
          /\ IF ok THEN
                /\ Step(r, [r EXCEPT !.pc = "qg_login"])
                /\ handles' = Keep(SetConnected(handles, r.tmp, TRUE))
             ELSE
                /\ Step(r, Done(r, "TransportError", NoHandle))
                /\ handles' = Keep(handles)

\* Lines 212-237: qr_login() has completed; the state is stored under the
\* token and the cleanup task is created.
generate_qr_login_store ==
    /\ NoDone
    /\ \E r \in InFlight : \E ok \in BOOLEAN :
          /\ r.pc = "qg_login"
          /\ UNCHANGED <<rows, nextId, clients, active_session_id, pending_auth, lastConn,
                         temp_files, history, operations, keys, crypto>>
          /\ IF ok THEN
                /\ qr_login_states' = (r.token :> r.tmp) @@ qr_login_states
                /\ cleanup' = (r.token :> CleanupTask("sleep", NoHandle, "")) @@ cleanup
                /\ Step(r, Done(r, "ok", NoHandle))
             ELSE
                /\ UNCHANGED <<qr_login_states, cleanup>>
                /\ Step(r, Done(r, "TransportError", NoHandle))
          /\ handles' = Keep(handles)

\* Variant of cleanup_sleep: the entry is left in the map.
cleanup_sleep_nopop ==
    /\ NoDone
    /\ \E t \in DOMAIN cleanup :
          /\ cleanup[t].pc = "sleep"
          /\ IF t \in DOMAIN qr_login_states THEN
                cleanup' = [cleanup EXCEPT ![t] = CleanupTask("disc", qr_login_states[t], "")]
             ELSE
                cleanup' = [cleanup EXCEPT ![t] = CleanupTask("done", NoHandle, "absent")]
          /\ UNCHANGED qr_login_states
    /\ UNCHANGED <<rows, nextId, clients, active_session_id, pending_auth, lastConn,
                   calls, ret, temp_files, history, operations, keys, crypto>>
    /\ handles' = Keep(handles)

\* Lines 224-228: the 120 seconds of the cleanup task are over.  A token
\* still in the map is popped and the disconnect() of its client is awaited.
cleanup_sleep ==
    /\ NoDone
    /\ \E t \in DOMAIN cleanup :
          /\ cleanup[t].pc = "sleep"
          /\ IF t \in DOMAIN qr_login_states THEN
                /\ qr_login_states' = Without(qr_login_states, t)
                /\ cleanup' = [cleanup EXCEPT ![t] = CleanupTask("disc", qr_login_states[t], "")]
             ELSE
                /\ UNCHANGED qr_login_states
                /\ cleanup' = [cleanup EXCEPT ![t] = CleanupTask("done", NoHandle, "absent")]
    /\ UNCHANGED <<rows, nextId, clients, active_session_id, pending_auth, lastConn,
                   calls, ret, temp_files, history, operations, keys, crypto>>
    /\ handles' = Keep(handles)

\* Line 228: the disconnect() of the cleanup task has completed; the task
\* ends (a failure ends it with an exception nobody retrieves).
cleanup_disconnect ==
    /\ NoDone
    /\ \E t \in DOMAIN cleanup : \E ok \in BOOLEAN :
          /\ cleanup[t].pc = "disc"
          /\ cleanup' = [cleanup EXCEPT ![t] =
                            CleanupTask("done", NoHandle, IF ok THEN "ok" ELSE "TransportError")]
          /\ UNCHANGED <<rows, nextId, clients, active_session_id, pending_auth, lastConn,
                         calls, ret, qr_login_states, temp_files, history, operations, keys, crypto>>
          /\ handles' = Keep(Disconnected(handles, cleanup[t].h, ok))

\* -------------------------------------------------------- check_qr_status
\* Lines 294-297: the except clause pops the token and awaits the
\* disconnect() of the client.
check_qr_status_except(r) == [r EXCEPT !.pc = "qs_disc", !.err = "error"]

\* Lines 247-262: an unknown token is reported expired at once; for a stored
\* one the bounded wait for the scan is awaited.
check_qr_status_start ==
    /\ CanStart
    /\ \E t \in Tokens \cup {NoToken} :
          LET r == [NewCall("check_qr_status", NoId, NoPhone) EXCEPT !.token = t] IN
          IF t \in DOMAIN qr_login_states THEN
             /\ CanConstruct
             /\ nextId + Inserting <= MaxImports
             /\ Enter([r EXCEPT !.pc = "qs_wait", !.tmp = qr_login_states[t]])
          ELSE
             Enter(Done(r, "expired", NoHandle))
    /\ UNCHANGED <<rows, nextId, clients, active_session_id, pending_auth, outside, lastConn>>
    /\ handles' = Keep(handles)

\* How wait_for(qr_login.wait(timeout=2), timeout=3) can end: the login is
\* accepted, the wait times out (with the login ticket still valid or
\* expired), or the transport raises.  A client that is not connected
\* receives no login.
WaitOutcomes(h) ==
    IF handles[h].connected THEN {"scanned", "timeout", "timeout_expired", "error"}
    ELSE {"timeout", "timeout_expired", "error"}

\* Variant of check_qr_status_wait: a timed-out wait discards the entry like
\* a failure.
check_qr_status_wait_pop ==
    /\ NoDone
    /\ \E r \in InFlight : \E o \in WaitOutcomes(r.tmp) :
          /\ r.pc = "qs_wait"
          /\ UNCHANGED <<rows, nextId, clients, active_session_id, pending_auth, lastConn,
                         cleanup, temp_files, history, operations, keys, crypto>>
          /\ CASE o = "scanned" ->
                  /\ Step(r, [r EXCEPT !.pc = "im_connect", !.h = FreshHandle])
                  /\ UNCHANGED qr_login_states
                  /\ handles' = Keep((FreshHandle :> NewHandle(NoId, NoPhone)) @@ handles)
               [] o = "timeout" ->
                  /\ Step(r, Done(r, "pending", NoHandle))
                  /\ qr_login_states' = Without(qr_login_states, r.token)
                  /\ handles' = Keep(handles)
               [] o = "timeout_expired" ->
                  /\ Step(r, [r EXCEPT !.pc = "qs_recreate"])
                  /\ qr_login_states' = Without(qr_login_states, r.token)
                  /\ handles' = Keep(handles)
               [] OTHER ->
                  /\ Step(r, check_qr_status_except(r))
                  /\ qr_login_states' = Without(qr_login_states, r.token)
                  /\ handles' = Keep(handles)

\* Lines 261-281 and 294-297: the wait has ended.  After a scan the
\* credential is exported and import_session_string starts (its client is
\* constructed, connect() is awaited; its later steps are the
\* import_session_string actions).  After a timeout the route answers
\* pending, or first awaits recreate() when the login ticket has expired.
check_qr_status_wait ==
    /\ NoDone
    /\ \E r \in InFlight : \E o \in WaitOutcomes(r.tmp) :
          /\ r.pc = "qs_wait"
          /\ UNCHANGED <<rows, nextId, clients, active_session_id, pending_auth, lastConn,
                         cleanup, temp_files, history, operations, keys, crypto>>
          /\ CASE o = "scanned" ->
                  /\ Step(r, [r EXCEPT !.pc = "im_connect", !.h = FreshHandle])
                  /\ UNCHANGED qr_login_states
                  /\ handles' = Keep((FreshHandle :> NewHandle(NoId, NoPhone)) @@ handles)
               [] o = "timeout" ->
                  /\ Step(r, Done(r, "pending", NoHandle))
                  /\ UNCHANGED qr_login_states
                  /\ handles' = Keep(handles)
               [] o = "timeout_expired" ->
                  /\ Step(r, [r EXCEPT !.pc = "qs_recreate"])
                  /\ UNCHANGED qr_login_states
                  /\ handles' = Keep(handles)
               [] OTHER ->
                  /\ Step(r, check_qr_status_except(r))
                  /\ qr_login_states' = Without(qr_login_states, r.token)
                  /\ handles' = Keep(handles)

\* Lines 267-271 and 294-297: recreate() has completed (it fails on a client
\* that is not connected).
check_qr_status_recreate ==
    /\ NoDone
    /\ \E r \in InFlight : \E ok \in (IF handles[r.tmp].connected THEN BOOLEAN ELSE {FALSE}) :
          /\ r.pc = "qs_recreate"
          /\ UNCHANGED <<rows, nextId, clients, active_session_id, pending_auth, lastConn,
                         cleanup, temp_files, history, operations, keys, crypto>>
          /\ IF ok THEN
                /\ Step(r, Done(r, "pending_refreshed", NoHandle))
                /\ UNCHANGED qr_login_states
             ELSE
                /\ Step(r, check_qr_status_except(r))
                /\ qr_login_states' = Without(qr_login_states, r.token)
          /\ handles' = Keep(handles)

\* Lines 288-297: the disconnect() of the success path has completed.  The
\* route answers success; when the disconnect() failed, or the imported
\* session is None (session_to_response raises), the except clause runs.
check_qr_status_close ==
    /\ NoDone
    /\ \E r \in InFlight : \E ok \in BOOLEAN :
          /\ r.pc = "qs_close"
          /\ Step(r, IF ok /\ r.val # NoHandle THEN Done(r, "success", r.val)
                     ELSE check_qr_status_except(r))
          /\ UNCHANGED <<rows, nextId, clients, active_session_id, pending_auth, outside, lastConn>>
          /\ handles' = Keep(Disconnected(handles, r.tmp, ok))

\* Lines 297-298: the disconnect() of the except clause has completed; the
\* route answers error, a failure of this disconnect() leaves the route as
\* an exception.
check_qr_status_disconnect ==
    /\ NoDone
    /\ \E r \in InFlight : \E ok \in BOOLEAN :
          /\ r.pc = "qs_disc"
          /\ Step(r, Done(r, IF ok THEN "error" ELSE "TransportError", NoHandle))
          /\ UNCHANGED <<rows, nextId, clients, active_session_id, pending_auth, outside, lastConn>>
          /\ handles' = Keep(Disconnected(handles, r.tmp, ok))

\* ----------------------------------------------------- import_session_file
\* The name NamedTemporaryFile gives the next file.
FreshFile == CHOOSE f \in Files : f \notin temp_files /\ \A g \in 1..(f - 1) : g \in temp_files

\* The request bodies: not base64, base64 of something TelegramClient cannot
\* open as a session, base64 of a session file.
SessionData == {"bad_base64", "not_a_session", "session"}

\* Lines 321-339.  Bytes that do not decode fail before any file is written;
\* otherwise the file is written, the client is constructed on it (a failure
\* runs the finally clause at once) and connect() is awaited.  The route
\* holds two clients at most: this one and import_session_string's.
import_session_file_start ==
    /\ CanStart
    /\ Cardinality(DOMAIN handles) + Reserved + 1 < MaxHandles
    /\ nextId + Inserting <= MaxImports
    /\ UNCHANGED <<rows, nextId, clients, active_session_id, pending_auth, lastConn,
                   qr_login_states, cleanup, history, operations, keys, crypto>>
    /\ \E d \in SessionData :
          LET r == NewCall("import_session_file", NoId, NoPhone) IN
          CASE d = "bad_base64" ->
                  /\ Enter(Done(r, "DecodeError", NoHandle))
                  /\ UNCHANGED temp_files
                  /\ handles' = Keep(handles)
            [] d = "not_a_session" ->
                  /\ Enter(Done([r EXCEPT !.file = FreshFile], "SessionFileError", NoHandle))
                  /\ UNCHANGED temp_files
                  /\ handles' = Keep(handles)
            [] OTHER ->
                  /\ Enter([r EXCEPT !.pc = "sf_connect", !.file = FreshFile, !.tmp = FreshHandle])
                  /\ temp_files' = temp_files \cup {FreshFile}
                  /\ handles' = Keep((FreshHandle :> NewHandle(NoId, NoPhone)) @@ handles)

\* Lines 339-342: connect() has completed.
import_session_file_connect ==
    /\ NoDone
    /\ \E r \in InFlight : \E ok \in BOOLEAN :
          /\ r.pc = "sf_connect"
          /\ UNCHANGED <<rows, nextId, clients, active_session_id, pending_auth, lastConn>>
          /\ IF ok THEN
                /\ Step(r, [r EXCEPT !.pc = "sf_auth"])
                /\ UNCHANGED outside
                /\ handles' = Keep(SetConnected(handles, r.tmp, TRUE))
             ELSE
                /\ import_session_file_finally(r, "TransportError", NoHandle)
                /\ handles' = Keep(handles)

\* Lines 342-349: is_user_authorized() has answered; either way the
\* disconnect() of the client is awaited next.
import_session_file_authorized ==
    /\ NoDone
    /\ \E r \in InFlight : \E authorized \in BOOLEAN :
          /\ r.pc = "sf_auth"
          /\ Step(r, [r EXCEPT !.pc = IF authorized THEN "sf_close" ELSE "sf_reject"])
    /\ UNCHANGED <<rows, nextId, clients, active_session_id, pending_auth, outside, lastConn>>
    /\ handles' = Keep(handles)

\* Lines 343-344: the disconnect() of the unauthorized client has completed.
import_session_file_reject ==
    /\ NoDone
    /\ \E r \in InFlight : \E ok \in BOOLEAN :
          /\ r.pc = "sf_reject"
          /\ import_session_file_finally(r, IF ok THEN "InvalidCredential" ELSE "TransportError", NoHandle)
          /\ UNCHANGED <<rows, nextId, clients, active_session_id, pending_auth, lastConn>>
          /\ handles' = Keep(Disconnected(handles, r.tmp, ok))

\* Lines 349-355: the disconnect() after the conversion has completed;
\* import_session_string starts (its client is constructed, connect() is
\* awaited; its later steps are the import_session_string actions).
import_session_file_close ==
    /\ NoDone
    /\ \E r \in InFlight : \E ok \in BOOLEAN :
          /\ r.pc = "sf_close"
          /\ UNCHANGED <<rows, nextId, clients, active_session_id, pending_auth, lastConn>>
          /\ IF ok THEN
                /\ Step(r, [r EXCEPT !.pc = "im_connect", !.h = FreshHandle])
                /\ UNCHANGED outside
                /\ handles' = Keep((FreshHandle :> NewHandle(NoId, NoPhone))
                                   @@ Disconnected(handles, r.tmp, TRUE))
             ELSE
                /\ import_session_file_finally(r, "TransportError", NoHandle)
                /\ handles' = Keep(handles)

\* ------------------------------------------------------------- clone_chat
\* A message of the source chat has text, media, both or neither.
MessageKinds == {"empty", "text", "media", "both"}
HasText(m) == m.kind \in {"text", "both"}
HasMedia(m) == m.kind \in {"media", "both"}

\* The source chats: the transport delivers the newest message first.
Histories == UNION {[1..n -> MessageKinds] : n \in 0..MaxMsgs}

\* What get_messages returns for chat h: the message at place k of n has the
\* k-th newest id and date.
Messages(h) == [k \in 1..Len(h) |-> [id |-> Len(h) - k + 1, kind |-> h[k]]]

\* Lines 104-112: messages before date_from or after date_to are dropped.
DateFilter(ms, from, to) ==
    LET Kept(m) == /\ ~(from # NoDate /\ m.id < from)
                   /\ ~(to # NoDate /\ m.id > to)
    IN  SelectSeq(ms, Kept)

\* Line 114: list(reversed(messages)).
Reversed(ms) == [k \in 1..Len(ms) |-> ms[Len(ms) - k + 1]]

\* Variant of clone_chat_messages: line 114 is missing.
clone_chat_messages_noreverse(r) ==
    DateFilter(Messages(history), r.date_from, r.date_to)

\* Lines 97-114: the list the loop iterates.
clone_chat_messages(r) ==
    Reversed(DateFilter(Messages(history), r.date_from, r.date_to))

\* Lines 134-136: a message with neither text nor media is skipped.
RECURSIVE SkipEmpty(_, _)
SkipEmpty(ms, j) ==
    IF j <= Len(ms) /\ ms[j].kind = "empty" THEN SkipEmpty(ms, j + 1) ELSE j

\* A text: the empty string, the text of source message body, or a
\* ciphertext carrying the sentinel prefix.
NoText == [enc |-> FALSE, password |-> NoPassword, chat |-> 0, body |-> 0]
Plain(id) == [enc |-> FALSE, password |-> NoPassword, chat |-> 0, body |-> id]
DecryptFailed == [enc |-> FALSE, password |-> NoPassword, chat |-> 0, body |-> -1]

\* message.text or "" (lines 180, 190, 209).
TextOf(m) == IF HasText(m) THEN Plain(m.id) ELSE NoText

\* message_encryption.py 52-76: the empty text is returned as it is; any
\* other text is encrypted under the key derived from the password and the
\* chat id, and prefixed with the sentinel.  (Source texts are plain here.)
encrypt_text(text, password, chat_id) ==
    IF text = NoText THEN text
    ELSE [enc |-> TRUE, password |-> password, chat |-> chat_id, body |-> text.body]

\* message_encryption.py 79-111: a text without the sentinel is returned as
\* it is; under another key the decryption fails.
decrypt_text(text, password, chat_id) ==
    IF ~text.enc THEN text
    ELSE IF text.password = password /\ text.chat = chat_id THEN Plain(text.body)
    ELSE DecryptFailed

\* Variant of clone_text: the key is derived for the source chat.
clone_text_source(r, m) ==
    IF r.mode = "encrypted" THEN encrypt_text(TextOf(m), r.encryption_password, SourceChat)
    ELSE TextOf(m)

\* Lines 180, 190, 209-214: the text the mode sends for message m, as body
\* or as caption.
clone_text(r, m) ==
    IF r.mode = "encrypted" THEN encrypt_text(TextOf(m), r.encryption_password, TargetChat)
    ELSE TextOf(m)

\* A send call for the current message is issued.
Sending(r, pc) ==
    [r EXCEPT !.pc = pc, !.log = Append(@, r.msgs[r.i].id),
              !.sent = Append(@, clone_text(r, r.msgs[r.i]))]

\* The send call in flight has returned (ok) or raised.
Sent(r, ok) == [r EXCEPT !.outcomes = Append(@, ok)]

\* Lines 148-149: the mode's helper has returned; the message counts as
\* cloned and the delay is awaited.
Cloned(r) == [r EXCEPT !.pc = "cl_sleep", !.cloned_count = @ + 1]

\* Variant of Skipped: the skipped messages count as cloned.
Skipped_cloned(r, j, k) == [r EXCEPT !.i = k, !.cloned_count = @ + (k - j)]

\* Lines 134-136: the messages at places j..k-1 are skipped.
Skipped(r, j, k) == [r EXCEPT !.i = k, !.skipped_count = @ + (k - j)]

\* Lines 128-157 with _clone_forward_mode, _clone_reupload_mode and
\* _clone_encrypted_mode (178-221):
\* the loop goes on at place j of the list.  After the last message the call
\* returns; media is downloaded first, text alone is sent, and a message
\* with nothing to send goes straight to the sleep.
clone_chat_dispatch(r, j) ==
    LET k == SkipEmpty(r.msgs, j)
        at == Skipped(r, j, k)
    IN  IF k > Len(r.msgs) THEN Done(at, "ok", NoHandle)
        ELSE IF HasMedia(r.msgs[k]) /\ r.include_media THEN [at EXCEPT !.pc = "cl_download"]
        ELSE IF HasText(r.msgs[k]) THEN Sending(at, "cl_send_message")
        ELSE Cloned(at)

\* Lines 24-31: CloneProgress(total).
CloneProgress(total) ==
    [total |-> total, current |-> 0, status |-> "starting", errors |-> << >>]

\* Lines 33-43, 130, 155: progress.update(i + 1, "Cloning message ...") at
\* the start of every iteration from place j on (status "cloning" stands
\* for these texts), and progress.complete() after the last one.
clone_chat_progress(p, ms, j) ==
    LET k == SkipEmpty(ms, j) IN
    IF k > Len(ms)
    THEN [p EXCEPT !.current = IF j <= Len(ms) THEN Len(ms) ELSE @, !.status = "completed"]
    ELSE [p EXCEPT !.current = k, !.status = "cloning"]

\* Variant of add_error: only the last error is kept.
add_error_last(p, id) == [p EXCEPT !.errors = <<id>>]

\* Lines 38-39, 152: progress.add_error("Message <id>: ...").
add_error(p, id) == [p EXCEPT !.errors = Append(@, id)]

\* Lines 128-168: the loop goes on at place j; how tells what it did last
\* ("start", "sleep", or "error": the except clause).  The result carries
\* len(progress.errors).
clone_chat_loop(old, r, p, j, how) ==
    LET nr == clone_chat_dispatch([r EXCEPT !.after = how], j)
        np == clone_chat_progress(p, r.msgs, j)
    IN  /\ Step(old, IF nr.res = "" THEN nr ELSE [nr EXCEPT !.error_count = Len(np.errors)])
        /\ operations' = (r.opid :> np) @@ operations

\* Variant of register_key: a key already registered for the chat is kept.
register_key_setdefault(ks, chat_id, password) ==
    IF chat_id \in DOMAIN ks THEN ks ELSE (chat_id :> password) @@ ks

\* message_encryption.py 183-186: cls._keys[chat_id] = password.
register_key(ks, chat_id, password) == (chat_id :> password) @@ ks

\* message_encryption.py 193-196: cls._keys.pop(chat_id, None).
remove_key(ks, chat_id) == [c \in DOMAIN ks \ {chat_id} |-> ks[c]]

\* A request on a client that is not connected fails.
SendOutcomes(h) == IF handles[h].connected THEN BOOLEAN ELSE {FALSE}

\* Clone requests are followed one after the other, MaxClones of them
\* getting as far as registering their progress.
CanClone ==
    /\ \A r \in InFlight : r.op # "clone_chat"
    /\ Cardinality(DOMAIN operations) < MaxClones

\* Variant of clone_chat_reject: the key is registered before the check.
clone_chat_reject_registered(r) ==
    /\ Enter(Done(r, "ValueError", NoHandle))
    /\ keys' = register_key(keys, TargetChat, r.encryption_password)
    /\ UNCHANGED <<active_session_id, lastConn, operations>>

\* Lines 89-90: the validation error.
clone_chat_reject(r) ==
    /\ Enter(Done(r, "ValueError", NoHandle))
    /\ UNCHANGED <<active_session_id, lastConn, operations, keys>>

\* Lines 89-97: encrypted mode without a password fails at once; otherwise
\* get_client() runs (its later steps are the get_client actions) and then
\* get_messages is awaited.  The password is read in encrypted mode only.
clone_chat_start ==
    /\ CanStart
    /\ CanConstruct
    /\ CanClone
    /\ \E mode \in Modes : \E password \in {NoPassword} \cup Passwords :
       \E media \in BOOLEAN : \E from, to \in Dates :
          LET r == [NewCall("clone_chat", NoId, NoPhone)
                      EXCEPT !.mode = mode,
                             !.encryption_password = IF mode = "encrypted" THEN password
                                                     ELSE NoPassword,
                             !.include_media = media, !.date_from = from, !.date_to = to]
          IN  IF mode = "encrypted" /\ password = NoPassword THEN clone_chat_reject(r)
              ELSE get_client_entry(r, r, TRUE) /\ UNCHANGED <<operations, keys>>
    /\ UNCHANGED <<rows, nextId, clients, pending_auth, elsewhere>>
    /\ handles' = Keep(handles)

\* Line 117: the identifier is made of the two chat ids, which are the same
\* for every clone here, and of datetime.now() cut to the second.  It is the
\* second of the latest registration in ops or a later one; the seconds are
\* numbered as they come into use.
operation_id(ops) ==
    IF DOMAIN ops = {} THEN {NoOp + 1}
    ELSE LET last == CHOOSE k \in DOMAIN ops : \A j \in DOMAIN ops : j <= k
         IN  {last, last + 1}

\* Lines 97-146: get_messages has completed; the list is filtered and
\* reversed, the CloneProgress is created and registered, in encrypted mode
\* the key is registered for the target chat, and the loop starts.  A
\* failure of get_messages leaves the call.
clone_chat_fetch ==
    /\ NoDone
    /\ \E r \in InFlight :
          /\ r.pc = "cl_fetch"
          /\ \E ok \in SendOutcomes(r.h) :
                IF ok THEN
                   \E id \in operation_id(operations) :
                   LET ms == clone_chat_messages(r)
                       nr == [r EXCEPT !.msgs = ms, !.date_from = NoDate, !.date_to = NoDate,
                                       !.opid = id]
                   IN  /\ clone_chat_loop(r, nr, CloneProgress(Len(ms)), 1, "start")
                       /\ keys' = IF r.mode = "encrypted"
                                  THEN register_key(keys, TargetChat, r.encryption_password)
                                  ELSE keys
                ELSE /\ Step(r, Done(r, "TransportError", NoHandle))
                     /\ UNCHANGED <<operations, keys>>
    /\ UNCHANGED <<rows, nextId, clients, active_session_id, pending_auth, elsewhere, lastConn>>
    /\ handles' = Keep(handles)

\* _send_with_media (231-243) and _send_encrypted_media (255-288):
\* download_media has completed.  With a file send_file is called; without
\* one, or after a failure, the caption is sent when there is one.
clone_chat_download ==
    /\ NoDone
    /\ \E r \in InFlight : \E o \in {"file", "none", "raise"} :
          /\ r.pc = "cl_download"
          /\ Step(r, CASE o = "file" -> Sending(r, "cl_send_file")
                       [] o = "none" /\ HasText(r.msgs[r.i]) -> Sending(r, "cl_send_caption")
                       [] o = "raise" /\ HasText(r.msgs[r.i]) -> Sending(r, "cl_send_message")
                       [] OTHER -> Cloned(r))
    /\ UNCHANGED <<rows, nextId, clients, active_session_id, pending_auth, outside, lastConn>>
    /\ handles' = Keep(handles)

\* Lines 235-243, 273-288: send_file has completed; its failure is caught and
\* the caption is sent instead when there is one.
clone_chat_send_file ==
    /\ NoDone
    /\ \E r \in InFlight :
          /\ r.pc = "cl_send_file"
          /\ \E ok \in SendOutcomes(r.h) :
             Step(r, IF ~ok /\ HasText(r.msgs[r.i]) THEN Sending(Sent(r, ok), "cl_send_message")
                     ELSE Cloned(Sent(r, ok)))
    /\ UNCHANGED <<rows, nextId, clients, active_session_id, pending_auth, outside, lastConn>>
    /\ handles' = Keep(handles)

\* Lines 238-243, 283-288: the send_message inside the try block has
\* completed; its failure is caught and the caption is sent once more.
clone_chat_send_caption ==
    /\ NoDone
    /\ \E r \in InFlight :
          /\ r.pc = "cl_send_caption"
          /\ \E ok \in SendOutcomes(r.h) :
             Step(r, IF ok THEN Cloned(Sent(r, ok))
                     ELSE Sending(Sent(r, ok), "cl_send_message"))
    /\ UNCHANGED <<rows, nextId, clients, active_session_id, pending_auth, outside, lastConn>>
    /\ handles' = Keep(handles)

\* Lines 148-153 with 185, 195, 221, 243, 288: a send_message outside any
\* inner try has completed; its failure is recorded by the loop's except
\* clause, which goes on with the next message.
clone_chat_send_message ==
    /\ NoDone
    /\ \E r \in InFlight :
          /\ r.pc = "cl_send_message"
          /\ \E ok \in SendOutcomes(r.h) :
                IF ok THEN Step(r, Cloned(Sent(r, ok))) /\ UNCHANGED operations
                ELSE clone_chat_loop(r, Sent(r, ok),
                                     add_error(operations[r.opid], r.msgs[r.i].id),
                                     r.i + 1, "error")
    /\ UNCHANGED <<rows, nextId, clients, active_session_id, pending_auth, elsewhere, keys, lastConn>>
    /\ handles' = Keep(handles)

\* Lines 148-149: the sleep between two messages is over.
clone_chat_sleep ==
    /\ NoDone
    /\ \E r \in InFlight :
          /\ r.pc = "cl_sleep"
          /\ clone_chat_loop(r, r, operations[r.opid], r.i + 1, "sleep")
    /\ UNCHANGED <<rows, nextId, clients, active_session_id, pending_auth, elsewhere, keys, lastConn>>
    /\ handles' = Keep(handles)

\* The task running clone_chat is cancelled while it waits: CancelledError
\* is no Exception, so neither except clause (151, 240, 285) catches it and
\* only the finally clause (170-175) runs.
clone_chat_cancel ==
    /\ NoDone
    /\ \E r \in InFlight :
          /\ r.op = "clone_chat"
          /\ r.pc \in {"cl_fetch", "cl_download", "cl_send_file", "cl_send_caption",
                       "cl_send_message", "cl_sleep"}
          /\ Step(r, Done(r, "CancelledError", NoHandle))
    /\ UNCHANGED <<rows, nextId, clients, active_session_id, pending_auth, outside, lastConn>>
    /\ handles' = Keep(handles)

\* routes/chats.py 603-610: POST /{chat_id}/encryption/register.
register_encryption_key ==
    /\ NoDone
    /\ \E password \in Passwords : keys' = register_key(keys, TargetChat, password)
    /\ UNCHANGED <<rows, nextId, clients, active_session_id, pending_auth, elsewhere,
                   operations, calls, ret, lastConn>>
    /\ handles' = Keep(handles)

\* routes/chats.py 613-618: DELETE /{chat_id}/encryption/key.
remove_encryption_key ==
    /\ NoDone
    /\ keys' = remove_key(keys, TargetChat)
    /\ UNCHANGED <<rows, nextId, clients, active_session_id, pending_auth, elsewhere,
                   operations, calls, ret, lastConn>>
    /\ handles' = Keep(handles)

\* ----------------------------------------------------------------- caller
\* The caller (the route) takes the outcome of the finished call; nothing
\* else runs between the return of a call and this step.
Return ==
    /\ ret # NoCall
    /\ ret' = NoCall
    /\ UNCHANGED <<rows, nextId, clients, active_session_id, pending_auth, outside, calls, lastConn>>
    /\ handles' = Keep(handles)

\* -------------------------------------------------------------- transport
\* The network drops a cached connection: is_connected() turns false.  (Only
\* the cached handles are ever asked is_connected().)
TransportDrop ==
    /\ NoDone
    /\ \E i \in DOMAIN clients : \E h \in {clients[i]} :
          /\ handles[h].connected
          /\ lastConn' = Forget(lastConn, h)
          /\ UNCHANGED <<rows, nextId, clients, active_session_id, pending_auth, outside, calls, ret>>
          /\ handles' = Keep(SetConnected(handles, h, FALSE))

Next ==
    \/ get_client_start
    \/ get_client_select
    \/ get_client_connect
    \/ get_client_commit
    \/ remove_session_start
    \/ remove_session_disconnect
    \/ remove_session_select
    \/ remove_session_commit
    \/ switch_session_start
    \/ switch_session_select
    \/ Return
    \/ TransportDrop

\* The SessionRegistry operations the routes call that write the cache, the
\* table or the active pointer, over the stored accounts.
Spec == Init /\ [][Next]_vars

NextShutdown ==
    \/ get_client_start
    \/ get_client_select
    \/ get_client_connect
    \/ get_client_commit
    \/ switch_session_start
    \/ switch_session_select
    \/ disconnect_all_start
    \/ disconnect_all_disconnect
    \/ Return
    \/ TransportDrop

\* disconnect_all (no route calls it: it is the hook for the shutdown of the
\* process) beside the operations that open connections and set the active
\* pointer.
SpecShutdown == Init /\ [][NextShutdown]_vars

NextExport ==
    \/ get_client_start
    \/ get_client_select
    \/ get_client_connect
    \/ get_client_commit
    \/ remove_session_start
    \/ remove_session_disconnect
    \/ remove_session_select
    \/ remove_session_commit
    \/ export_session_string_start
    \/ export_session_string_select
    \/ Return
    \/ TransportDrop

\* Credential export (which writes nothing) beside the removal of accounts
\* and the opening of their connections.
SpecExport == Init /\ [][NextExport]_vars

NextAuth ==
    \/ request_code_start
    \/ request_code_connect
    \/ request_code_send
    \/ import_session_string_start
    \/ import_session_string_connect
    \/ import_session_string_authorized
    \/ import_session_string_reject
    \/ import_session_string_get_me
    \/ import_session_string_insert
    \/ import_session_string_get
    \/ Return
    \/ TransportDrop

\* The registration flows (phone+code request, session-string import) from
\* an empty table.
SpecAuth == InitAuth /\ [][NextAuth]_vars

NextVerify ==
    \/ request_code_start
    \/ request_code_connect
    \/ request_code_send
    \/ verify_code_start
    \/ verify_code_sign_in
    \/ verify_code_password
    \/ verify_code_insert
    \/ verify_code_get
    \/ verify_code_disconnect
    \/ Return

\* The phone+code flow from an empty table: codes are requested and
\* verified.  (Nothing here asks a cached client is_connected(), so the loss
\* of a cached connection is left out.)
SpecVerify == InitAuth /\ [][NextVerify]_vars

NextQR ==
    \/ generate_qr_login_start
    \/ generate_qr_login_connect
    \/ generate_qr_login_store
    \/ cleanup_sleep
    \/ cleanup_disconnect
    \/ check_qr_status_start
    \/ check_qr_status_wait
    \/ check_qr_status_recreate
    \/ check_qr_status_close
    \/ check_qr_status_disconnect
    \/ import_session_string_connect
    \/ import_session_string_authorized
    \/ import_session_string_reject
    \/ import_session_string_get_me
    \/ import_session_string_insert
    \/ import_session_string_get
    \/ Return

\* The QR login flow from an empty table: tokens are generated, polled and
\* cleaned up; a poll that sees the scan imports the account.
SpecQR == InitAuth /\ [][NextQR]_vars

NextFile ==
    \/ import_session_file_start
    \/ import_session_file_connect
    \/ import_session_file_authorized
    \/ import_session_file_reject
    \/ import_session_file_close
    \/ import_session_string_connect
    \/ import_session_string_authorized
    \/ import_session_string_reject
    \/ import_session_string_get_me
    \/ import_session_string_insert
    \/ import_session_string_get
    \/ remove_session_start
    \/ remove_session_disconnect
    \/ remove_session_select
    \/ remove_session_commit
    \/ Return

\* The import of session files from an empty table, beside the removal of
\* the accounts they register.
SpecFile == InitAuth /\ [][NextFile]_vars

\* Account 1 has been made the active one by a switch_session(1) and its
\* connection is cached; the transport may have dropped it since.  The
\* source chat holds any of the histories.
InitClone ==
    /\ rows = StoredRows(MaxAccounts)
    /\ nextId = MaxAccounts + 1
    /\ clients = (1 :> 1)
    /\ active_session_id = 1
    /\ pending_auth = << >>
    /\ \E up \in BOOLEAN :
          /\ handles = (1 :> [connected |-> up, acct |-> 1, phone |-> NoPhone])
          /\ lastConn = [i \in Ids |-> IF i = 1 /\ up THEN 1 ELSE NoHandle]
    /\ calls = EmptyBag
    /\ ret = NoCall
    /\ qr_login_states = << >>
    /\ cleanup = << >>
    /\ temp_files = {}
    /\ history \in Histories
    /\ operations = << >>
    /\ keys = << >>
    /\ crypto = NoCrypto

NextClone ==
    \/ clone_chat_start
    \/ get_client_select
    \/ get_client_connect
    \/ get_client_commit
    \/ clone_chat_fetch
    \/ clone_chat_download
    \/ clone_chat_send_file
    \/ clone_chat_send_caption
    \/ clone_chat_send_message
    \/ clone_chat_sleep
    \/ Return

\* Chats are cloned through the connection of the active account.
SpecClone == InitClone /\ [][NextClone]_vars

\* An earlier clone_chat, whose date filter kept no message, has registered
\* its operation and returned; the next one has got the connection of the
\* active account 1 and awaits get_messages.
InitRegister ==
    /\ rows = StoredRows(MaxAccounts)
    /\ nextId = MaxAccounts + 1
    /\ clients = (1 :> 1)
    /\ active_session_id = 1
    /\ pending_auth = << >>
    /\ handles = (1 :> [connected |-> TRUE, acct |-> 1, phone |-> NoPhone])
    /\ lastConn = [i \in Ids |-> IF i = 1 THEN 1 ELSE NoHandle]
    /\ \E mode \in Modes : \E password \in Passwords : \E media \in BOOLEAN :
       \E from, to \in Dates :
          calls = One([NoCall EXCEPT !.op = "clone_chat", !.sid = 1, !.h = 1,
                                     !.pc = "cl_fetch", !.mode = mode,
                                     !.encryption_password = IF mode = "encrypted"
                                                             THEN password ELSE NoPassword,
                                     !.include_media = media,
                                     !.date_from = from, !.date_to = to])
    /\ ret = NoCall
    /\ qr_login_states = << >>
    /\ cleanup = << >>
    /\ temp_files = {}
    /\ history \in Histories
    /\ operations = (NoOp + 1 :> clone_chat_progress(CloneProgress(0), << >>, 1))
    /\ keys = << >>
    /\ crypto = NoCrypto

NextRegister ==
    \/ clone_chat_fetch
    \/ clone_chat_download
    \/ clone_chat_send_file
    \/ clone_chat_send_caption
    \/ clone_chat_send_message
    \/ clone_chat_sleep
    \/ Return

\* A clone registers its operation after an earlier one has.
SpecRegister == InitRegister /\ [][NextRegister]_vars

\* Clones run while the routes register and remove keys.
NextKeys ==
    \/ NextClone
    \/ register_encryption_key
    \/ remove_encryption_key

SpecKeys == InitClone /\ [][NextKeys]_vars

\* Clones may be cancelled while they wait.
NextCancel ==
    \/ NextClone
    \/ clone_chat_cancel

SpecCancel == InitClone /\ [][NextCancel]_vars

\* A source chat with one text message more than to_dict reports errors
\* for; account 1 is active and connected.
InitErrorLog ==
    /\ rows = StoredRows(MaxAccounts)
    /\ nextId = MaxAccounts + 1
    /\ clients = (1 :> 1)
    /\ active_session_id = 1
    /\ pending_auth = << >>
    /\ handles = (1 :> [connected |-> TRUE, acct |-> 1, phone |-> NoPhone])
    /\ lastConn = [i \in Ids |-> IF i = 1 THEN 1 ELSE NoHandle]
    /\ calls = EmptyBag
    /\ ret = NoCall
    /\ qr_login_states = << >>
    /\ cleanup = << >>
    /\ temp_files = {}
    /\ history = [k \in 1..(ErrorsShown + 1) |-> "text"]
    /\ operations = << >>
    /\ keys = << >>
    /\ crypto = NoCrypto

NextErrorLog ==
    \/ clone_chat_start
    \/ clone_chat_fetch
    \/ clone_chat_send_message
    \/ clone_chat_sleep
    \/ Return

\* A clone of a long text-only chat.
SpecErrorLog == InitErrorLog /\ [][NextErrorLog]_vars

\* ------------------------------------------------------ message encryption
\* The cipher in miniature: blocks of BlockBytes bytes (16 in IV_SIZE and
\* PKCS7(128)), bytes 0..ByteMax.  As in UTF-8 the padding values
\* 1..BlockBytes are bytes of one-byte characters.
ByteMax == BlockBytes + 2
Bytes == 0..ByteMax
Blocks == [1..BlockBytes -> Bytes]

\* The characters of a text: 0..BlockBytes are encoded in one byte, WideChar
\* in two (a lead byte and a continuation byte, which are valid nowhere else).
WideChar == BlockBytes + 1
Texts == UNION {[1..n -> 0..WideChar] : n \in 0..BlockBytes}

\* What a decoder returns for bytes it rejects.
Invalid == <<-1>>

\* str.encode('utf-8') (message_encryption.py 66).
RECURSIVE utf8_encode(_)
utf8_encode(text) ==
    IF text = << >> THEN << >>
    ELSE (IF text[1] = WideChar THEN <<ByteMax, ByteMax - 1>> ELSE <<text[1]>>)
         \o utf8_encode(Tail(text))

\* bytes.decode('utf-8') (message_encryption.py 108): Invalid stands for
\* UnicodeDecodeError.
RECURSIVE utf8_decode(_)
utf8_decode(data) ==
    IF data = << >> THEN << >>
    ELSE LET wide == Len(data) >= 2 /\ data[1] = ByteMax /\ data[2] = ByteMax - 1
             rest == IF wide THEN utf8_decode(Tail(Tail(data))) ELSE utf8_decode(Tail(data))
         IN  IF ~wide /\ data[1] > BlockBytes THEN Invalid
             ELSE IF rest = Invalid THEN Invalid
             ELSE <<IF wide THEN WideChar ELSE data[1]>> \o rest

\* padding.PKCS7(128).padder() (message_encryption.py 65-66,
\* encryption_service.py 61-62): n bytes of value n reach the next multiple
\* of the block size, a whole block when the data is aligned.
PKCS7_pad(data) ==
    LET n == BlockBytes - (Len(data) % BlockBytes)
    IN  data \o [k \in 1..n |-> n]

\* padding.PKCS7(128).unpadder() (message_encryption.py 105-106,
\* encryption_service.py 100-101): Invalid stands for the ValueError raised
\* when the last byte n is no padding value or the last n bytes are not n.
PKCS7_unpad(padded) ==
    LET len == Len(padded)
        n == IF len = 0 THEN 0 ELSE padded[len]
    IN  IF len = 0 \/ len % BlockBytes # 0 \/ n \notin 1..BlockBytes THEN Invalid
        ELSE IF \E k \in (len - n + 1)..len : padded[k] # n THEN Invalid
        ELSE SubSeq(padded, 1, len - n)

\* A block as a number and back.
RECURSIVE BlockNumber(_)
BlockNumber(b) ==
    IF b = << >> THEN 0
    ELSE b[Len(b)] + (ByteMax + 1) * BlockNumber(SubSeq(b, 1, Len(b) - 1))

NumberBlock(n) ==
    [k \in 1..BlockBytes |-> (n \div ((ByteMax + 1) ^ (BlockBytes - k))) % (ByteMax + 1)]

\* algorithms.AES(key): the block cipher is a permutation of the blocks for
\* every key, another one for another key.  Here it is an affine map of the
\* block numbers whose factor is the key-th unit modulo their number.
AES_factor(key) ==
    LET base == ByteMax + 1
        units == {m \in 2..(base * (key + 1)) : \A d \in 2..base : m % d # 0 \/ base % d # 0}
    IN  CHOOSE m \in units : Cardinality({u \in units : u < m}) = key - 1

AES_encrypt(key, block) ==
    NumberBlock((AES_factor(key) * BlockNumber(block) + key) % ((ByteMax + 1) ^ BlockBytes))

AES_decrypt(key, block) ==
    LET size == (ByteMax + 1) ^ BlockBytes
        factor == AES_factor(key)
        inverse == CHOOSE i \in 1..(size - 1) : (factor * i) % size = 1
    IN  NumberBlock((inverse * (BlockNumber(block) + size - key)) % size)

\* modes.CBC(iv), encryptor (message_encryption.py 68-70,
\* encryption_service.py 65-67): every block is combined with the
\* ciphertext block before it (first the IV) and then enciphered.  The
\* exclusive or of the bytes is here their sum modulo the number of bytes.
RECURSIVE CBC_encrypt(_, _, _)
CBC_encrypt(key, prev, padded) ==
    IF padded = << >> THEN << >>
    ELSE LET c == AES_encrypt(key, [k \in 1..BlockBytes |-> (padded[k] + prev[k]) % (ByteMax + 1)])
         IN  c \o CBC_encrypt(key, c, SubSeq(padded, BlockBytes + 1, Len(padded)))

\* modes.CBC(iv), decryptor (message_encryption.py 100-102,
\* encryption_service.py 95-97).  Invalid stands for the ValueError of an IV
\* of another size than a block or of data that is not whole blocks.
RECURSIVE CBC_blocks(_, _, _)
CBC_blocks(key, prev, data) ==
    IF data = << >> THEN << >>
    ELSE LET c == SubSeq(data, 1, BlockBytes)
             d == AES_decrypt(key, c)
         IN  [k \in 1..BlockBytes |-> (d[k] + (ByteMax + 1) - prev[k]) % (ByteMax + 1)]
             \o CBC_blocks(key, c, SubSeq(data, BlockBytes + 1, Len(data)))

CBC_decrypt(key, iv, data) ==
    IF Len(iv) # BlockBytes \/ Len(data) % BlockBytes # 0 THEN Invalid
    ELSE CBC_blocks(key, iv, data)

\* The texts: a text without the sentinel, the sentinel followed by the
\* base64 form of data (Invalid: by what is no base64), and the placeholder
\* of a failed decryption.
Str(text) == [kind |-> "plain", text |-> text, data |-> << >>]
Sealed(data) == [kind |-> "sealed", text |-> << >>, data |-> data]
Placeholder == [kind |-> "failed", text |-> << >>, data |-> << >>]

Chats == {SourceChat, TargetChat}

\* message_encryption.py 38-49: PBKDF2 of the password, salted with the
\* chat id; two passwords or two chats give two keys.
derive_key(password, chat_id) == Cardinality(Chats) * (password - 1) + chat_id

\* Variant of MessageEncryption_encrypt_text: line 73 leaves the IV out.
MessageEncryption_encrypt_text_noiv(text, password, chat_id, iv) ==
    IF text = << >> THEN Str(text)
    ELSE Sealed(CBC_encrypt(derive_key(password, chat_id), iv, PKCS7_pad(utf8_encode(text))))

\* message_encryption.py 52-76, with iv the outcome of token_bytes.
MessageEncryption_encrypt_text(text, password, chat_id, iv) ==
    IF text = << >> THEN Str(text)
    ELSE Sealed(iv \o CBC_encrypt(derive_key(password, chat_id), iv, PKCS7_pad(utf8_encode(text))))

\* message_encryption.py 79-111: whatever is raised on the way is turned
\* into the placeholder (lines 109-111).
MessageEncryption_decrypt_text(encrypted_text, password, chat_id) ==
    IF encrypted_text.kind # "sealed" THEN encrypted_text
    ELSE LET combined == encrypted_text.data
             iv == SubSeq(combined, 1, IF Len(combined) < BlockBytes THEN Len(combined) ELSE BlockBytes)
             ciphertext == SubSeq(combined, Len(iv) + 1, Len(combined))
             padded == CBC_decrypt(derive_key(password, chat_id), iv, ciphertext)
             data == IF padded = Invalid THEN Invalid ELSE PKCS7_unpad(padded)
             text == IF data = Invalid THEN Invalid ELSE utf8_decode(data)
         IN  IF combined = Invalid \/ text = Invalid THEN Placeholder ELSE Str(text)

\* What decrypt_text may be given: the texts, and the sentinel followed by
\* anything.
Given ==
    {Str(t) : t \in Texts} \cup {Sealed(Invalid)}
    \cup {Sealed(d) : d \in UNION {[1..n -> Bytes] : n \in 0..(BlockBytes + 1)}}

\* A text to encrypt under password and to decrypt under other, or a text
\* to decrypt.
InitText ==
    /\ rows = StoredRows(0)
    /\ nextId = 1
    /\ clients = << >>
    /\ active_session_id = NoId
    /\ pending_auth = << >>
    /\ handles = << >>
    /\ calls = EmptyBag
    /\ ret = NoCall
    /\ lastConn = [i \in Ids |-> NoHandle]
    /\ qr_login_states = << >>
    /\ cleanup = << >>
    /\ temp_files = {}
    /\ history = << >>
    /\ operations = << >>
    /\ keys = << >>
    /\ \/ \E t \in Texts, p \in Passwords, o \in Passwords, c \in Chats :
             crypto = [pc |-> "encrypt", text |-> t, password |-> p, other |-> o,
                       chat_id |-> c, message |-> Str(t), out |-> Str(t)]
       \/ \E m \in Given, p \in Passwords, c \in Chats :
             crypto = [pc |-> "given", text |-> << >>, password |-> p, other |-> p,
                       chat_id |-> c, message |-> m, out |-> m]

\* encrypt_text(text, password, chat_id) is called.
encrypt_text_call ==
    /\ crypto.pc = "encrypt"
    /\ \E iv \in Blocks :
          crypto' = [crypto EXCEPT !.pc = "encrypted",
                        !.message = MessageEncryption_encrypt_text(crypto.text, crypto.password, crypto.chat_id, iv)]
    /\ UNCHANGED <<rows, nextId, clients, active_session_id, pending_auth, handles, calls, ret, lastConn,
                   qr_login_states, cleanup, temp_files, history, operations, keys>>

\* decrypt_text(message, other, chat_id) is called.
decrypt_text_call ==
    /\ crypto.pc \in {"encrypted", "given"}
    /\ crypto' = [crypto EXCEPT !.pc = IF crypto.pc = "given" THEN "shown" ELSE "decrypted",
                      !.out = MessageEncryption_decrypt_text(crypto.message, crypto.other, crypto.chat_id)]
    /\ UNCHANGED <<rows, nextId, clients, active_session_id, pending_auth, handles, calls, ret, lastConn,
                   qr_login_states, cleanup, temp_files, history, operations, keys>>

NextText == encrypt_text_call \/ decrypt_text_call

SpecText == InitText /\ [][NextText]_vars

\* ------------------------------------------------------ backup encryption
\* encryption_service.py 28: the magic bytes, in the bytes of the miniature.
MAGIC_HEADER == <<2, 1>>

\* Outcomes of token_bytes(SALT_SIZE) (line 54): salts are as long as blocks.
Salts == {NumberBlock(v) : v \in 0..1}

\* encryption_service.py 35-44: PBKDF2 of the password with the salt; two
\* passwords or two salts give two keys.
EncryptionService_derive_key(password, salt) ==
    1 + Cardinality(Passwords) * BlockNumber(salt) + (password - 1)

\* encryption_service.py 47-70, with salt and iv the outcomes of token_bytes.
encrypt_data(data, password, salt, iv) ==
    MAGIC_HEADER \o salt \o iv
    \o CBC_encrypt(EncryptionService_derive_key(password, salt), iv, PKCS7_pad(data))

\* b[from : to] of Python (from and to count from 0, to is excluded).
Slice(b, from, to) ==
    SubSeq(b, from + 1, IF to > Len(b) THEN Len(b) ELSE to)

\* encryption_service.py 73-103: the outcome, the data returned and whether
\* the key was derived.  ValueError is the error of the cipher or of the
\* unpadder, InvalidFormat the one of line 81.
decrypt_data(encrypted_data, password) ==
    LET offset == Len(MAGIC_HEADER)
        salt == Slice(encrypted_data, offset, offset + BlockBytes)
        iv == Slice(encrypted_data, offset + BlockBytes, offset + 2 * BlockBytes)
        ciphertext == Slice(encrypted_data, offset + 2 * BlockBytes, Len(encrypted_data))
        padded == CBC_decrypt(EncryptionService_derive_key(password, salt), iv, ciphertext)
        data == IF padded = Invalid THEN Invalid ELSE PKCS7_unpad(padded)
    IN  IF Slice(encrypted_data, 0, offset) # MAGIC_HEADER
        THEN [res |-> "InvalidFormat", data |-> << >>, derived |-> FALSE]
        ELSE IF data = Invalid THEN [res |-> "ValueError", data |-> << >>, derived |-> TRUE]
        ELSE [res |-> "ok", data |-> data, derived |-> TRUE]

\* Data to encrypt under password and to decrypt under other.
InitEnvelope ==
    /\ rows = StoredRows(0)
    /\ nextId = 1
    /\ clients = << >>
    /\ active_session_id = NoId
    /\ pending_auth = << >>
    /\ handles = << >>
    /\ calls = EmptyBag
    /\ ret = NoCall
    /\ lastConn = [i \in Ids |-> NoHandle]
    /\ qr_login_states = << >>
    /\ cleanup = << >>
    /\ temp_files = {}
    /\ history = << >>
    /\ operations = << >>
    /\ keys = << >>
    /\ \E d \in UNION {[1..n -> Bytes] : n \in 0..BlockBytes}, p \in Passwords, o \in Passwords :
          crypto = [pc |-> "data", data |-> d, password |-> p, other |-> o, blob |-> << >>,
                    damaged |-> FALSE, out |-> [res |-> "", data |-> << >>, derived |-> FALSE]]

\* encrypt_data(data, password) is called.
encrypt_data_call ==
    /\ crypto.pc = "data"
    /\ \E salt \in Salts, iv \in Blocks :
          crypto' = [crypto EXCEPT !.pc = "blob",
                                   !.blob = encrypt_data(crypto.data, crypto.password, salt, iv)]
    /\ UNCHANGED <<rows, nextId, clients, active_session_id, pending_auth, handles, calls, ret, lastConn,
                   qr_login_states, cleanup, temp_files, history, operations, keys>>

\* A byte of the magic header of the stored backup is changed.
corrupt_header ==
    /\ crypto.pc = "blob" /\ ~crypto.damaged /\ crypto.other = crypto.password
    /\ \E k \in 1..Len(MAGIC_HEADER) :
          crypto' = [crypto EXCEPT !.damaged = TRUE,
                                   !.blob[k] = (crypto.blob[k] + 1) % (ByteMax + 1)]
    /\ UNCHANGED <<rows, nextId, clients, active_session_id, pending_auth, handles, calls, ret, lastConn,
                   qr_login_states, cleanup, temp_files, history, operations, keys>>

\* decrypt_data(blob, other) is called.
decrypt_data_call ==
    /\ crypto.pc = "blob"
    /\ crypto' = [crypto EXCEPT !.pc = "opened", !.out = decrypt_data(crypto.blob, crypto.other)]
    /\ UNCHANGED <<rows, nextId, clients, active_session_id, pending_auth, handles, calls, ret, lastConn,
                   qr_login_states, cleanup, temp_files, history, operations, keys>>

NextEnvelope == encrypt_data_call \/ corrupt_header \/ decrypt_data_call

SpecEnvelope == InitEnvelope /\ [][NextEnvelope]_vars

\* disconnect_all beside the calls that insert into the cache and remove
\* from it.
NextSweep ==
    \/ get_client_start
    \/ get_client_select
    \/ get_client_connect
    \/ get_client_commit
    \/ remove_session_start
    \/ remove_session_disconnect
    \/ remove_session_select
    \/ remove_session_commit
    \/ disconnect_all_start
    \/ disconnect_all_disconnect
    \/ Return

SpecSweep == Init /\ [][NextSweep]_vars

\* Listing the accounts beside the calls that open, drop and remove their
\* connections.
NextList ==
    \/ get_client_start
    \/ get_client_select
    \/ get_client_connect
    \/ get_client_commit
    \/ remove_session_start
    \/ remove_session_disconnect
    \/ remove_session_select
    \/ remove_session_commit
    \/ list_sessions_start
    \/ list_sessions_select
    \/ list_sessions_commit
    \/ Return
    \/ TransportDrop

SpecList == Init /\ [][NextList]_vars

\* ------------------------------------------------------------ properties
\* A call returns or raises in this step; ret' is its record.
Finishes == ret = NoCall /\ ret' # NoCall

\* This step is the first step of a call.
StartStep ==
    \/ BagCardinality(calls') > BagCardinality(calls)
    \/ Finishes /\ ret'.pc = "idle"

\* The call with record r has started in this step and is now suspended.
Entered(r) ==
    /\ BagCardinality(calls') > BagCardinality(calls)
    /\ CopiesIn(r, calls') > CopiesIn(r, Bump(calls, r.op))

\* The suspended call with record r has run in this step.
Moved(r) == ~StartStep /\ CopiesIn(r, calls') < CopiesIn(r, calls)

\* C1: for every account id at most one handle constructed for that id is
\* connected, whatever the interleaving of get_client calls: two live
\* connections for one account never exist together.
C1_OneLiveConnection ==
    \A i \in Ids :
       Cardinality({h \in DOMAIN handles : handles[h].acct = i /\ handles[h].connected}) <= 1

\* C2: a get_client(id) that follows an earlier successful get_client(id),
\* neither overlapping another call, with no disconnect, removal or
\* connection loss for id in between, returns the handle the earlier call
\* returned and constructs and connects no handle of its own.
C2_SameHandleConnectOnce ==
    (/\ ret.op = "get_client" /\ ret.res = "ok"
     /\ ret.overlap = "none" /\ ret.prev # NoHandle)
    => /\ ret.val = ret.prev
       /\ ret.h = NoHandle /\ ret.pc = "idle"
       /\ ret.sid \in DOMAIN clients
       /\ clients[ret.sid] = ret.val

C2_Witness ==
    /\ ret.op = "get_client" /\ ret.res = "ok" /\ ret.arg # NoId
    /\ ret.overlap = "none" /\ ret.prev # NoHandle
    /\ ret.val = ret.prev /\ handles[ret.val].connected

\* C3: get_client(None) called while the active pointer is unset fails with
\* NoActiveAccount (also after disconnect_all has unset it) and touches
\* nothing; a successful switch_session(id) leaves the pointer at id with
\* id's connection cached, and a following get_client(None) returns that
\* connection.
C3_ActiveFallback ==
    [][/\ \A r \in BagToSet(calls') :
             (r.op = "get_client" /\ r.arg = NoId /\ Entered(r))
             => /\ active_session_id # NoId /\ r.sid = active_session_id
                /\ r.overlap = "none" => lastConn[active_session_id] = NoHandle
       /\ (Finishes /\ ret'.op = "get_client" /\ ret'.arg = NoId /\ ret'.pc = "idle")
          => /\ ret'.sid = active_session_id
             /\ active_session_id = NoId <=> ret'.res = "NoActiveAccount"
             /\ ret'.res = "NoActiveAccount"
                => ret'.val = NoHandle /\ clients' = clients /\ handles' = handles
             /\ (/\ ret'.overlap = "none" /\ active_session_id # NoId
                 /\ lastConn[active_session_id] # NoHandle)
                => /\ ret'.res = "ok"
                   /\ ret'.val = lastConn[active_session_id]
                   /\ handles[ret'.val].acct = active_session_id
       /\ (Finishes /\ ret'.op = "switch_session" /\ ret'.res = "ok" /\ ret'.overlap = "none")
          => /\ active_session_id' = ret'.arg
             /\ ret'.val # NoHandle
             /\ ret'.arg \in DOMAIN clients' /\ clients'[ret'.arg] = ret'.val
             /\ handles'[ret'.val].acct = ret'.arg
             /\ handles'[ret'.val].connected => lastConn'[ret'.arg] = ret'.val
    ]_vars

C3_Witness ==
    /\ ret.op = "get_client" /\ ret.arg = NoId /\ ret.res = "ok" /\ ret.overlap = "none"
    /\ ret.sid = active_session_id /\ ret.prev = ret.val
    /\ handles[ret.val].acct = ret.sid

\* C4: once remove_session has removed the account the active pointer
\* designates, a get_client(None) does not succeed: it returns no connection.
C4_RemovedActiveFails ==
    [][(/\ Finishes /\ ret'.op = "get_client" /\ ret'.arg = NoId /\ ret'.pc = "idle"
        /\ active_session_id # NoId /\ active_session_id \notin DOMAIN rows)
       => ret'.res # "ok"
    ]_vars

\* C5: a remove_session(id) that overlaps no other call and returns success
\* has disconnected the handle that was cached for id and evicted it before
\* it deleted the row; with no row for id it returns not-found and no step
\* of it changes the table.
C5_RemoveDisconnectsThenDeletes ==
    [][/\ rows' # rows
          => Finishes /\ ret'.op = "remove_session" /\ ret'.pc = "rm_commit" /\ ret'.res = "ok"
       /\ (Finishes /\ ret'.op = "remove_session" /\ ret'.overlap = "none")
          => /\ ret'.res \in {"ok", "not_found", "TransportError"}
             /\ ret'.res = "ok"
                => /\ ret'.pc = "rm_commit"
                   /\ ret'.sid \in DOMAIN rows
                   /\ rows' = Without(rows, ret'.sid)
                   /\ ret'.sid \notin DOMAIN clients
                   /\ ret'.sid \notin DOMAIN clients'
                   /\ ret'.h # NoHandle => ~handles[ret'.h].connected
             /\ ret'.res = "not_found"
                => /\ ret'.sid \notin DOMAIN rows /\ rows' = rows
                   /\ ret'.sid \notin DOMAIN clients'
       /\ \A r \in InFlight :
             (r.pc = "rm_select" /\ r.sid \in DOMAIN rows /\ Moved(r))
             => ret' = NoCall /\ rows' = rows
    ]_vars

C5_Witness ==
    /\ ret.op = "remove_session" /\ ret.res = "ok" /\ ret.overlap = "none"
    /\ ret.h # NoHandle /\ ~handles[ret.h].connected
    /\ ret.sid \notin DOMAIN rows /\ ret.sid \notin DOMAIN clients

\* C6: when remove_session(id) and export_session_string(id) interleave,
\* the export ends with the credential or with not-found, and the removal,
\* overlapping nothing but exports, ends with success or not-found (or with
\* the transport's own disconnect failure, which no interleaving causes).
C6_RemoveExportRace ==
    /\ ret.op = "export_session_string" => ret.res \in {"ok", "NotFound"}
    /\ (ret.op = "remove_session" /\ ret.overlap \in {"none", "readers"})
       => ret.res \in {"ok", "not_found", "TransportError"}

C6_Witness ==
    /\ ret.op = "remove_session" /\ ret.overlap = "readers" /\ ret.res = "ok"
    /\ \E r \in InFlight :
          r.op = "export_session_string" /\ r.pc = "ex_select" /\ r.sid = ret.sid

\* C7: the active pointer is set by switch_session(id) in one step only, its
\* successful return, after the row was found and get_client(id) returned a
\* handle of id, and then to id; a call that fails leaves the pointer alone.
C7_SwitchSetsActiveLast ==
    [][/\ active_session_id' # active_session_id
          => /\ Finishes /\ ret'.res = "ok"
             /\ ret'.op \in {"switch_session", "disconnect_all"}
       /\ (Finishes /\ ret'.op = "switch_session")
          => /\ ret'.res = "ok"
                => /\ active_session_id' = ret'.arg
                   /\ ret'.val # NoHandle
                   /\ handles'[ret'.val].acct = ret'.arg
                   /\ ret'.pc \in {"sw_select", "gc_commit"}
                   /\ ret'.pc = "sw_select" => ret'.arg \in DOMAIN rows
             /\ ret'.res # "ok" => active_session_id' = active_session_id
       /\ \A r \in InFlight :
             (r.pc = "sw_select" /\ r.arg \notin DOMAIN rows /\ Moved(r))
             => ret' = Done(r, "NotFound", NoHandle)
    ]_vars

C7_Witness ==
    /\ ret.op = "switch_session" /\ ret.res \in {"NotFound", "TransportError"}
    /\ active_session_id # NoId

C9_OneActiveAccount ==
    Cardinality({i \in DOMAIN rows : rows[i].is_active}) <= 1

\* C10: when request_code(phone) replaces an existing pending entry for the
\* phone, the handle of the entry it replaces has been disconnected.
C10_PriorPendingReleased ==
    [][(/\ Finishes /\ ret'.op = "request_code" /\ ret'.res = "ok"
        /\ ret'.phone \in DOMAIN pending_auth)
       => LET h0 == pending_auth[ret'.phone] IN
          IF h0 \in DOMAIN handles' THEN ~handles'[h0].connected
          ELSE ~handles[h0].connected
    ]_vars

\* C11: when a verify_code that overlapped no other call fails for another
\* reason than the two-factor requirement (the sign-in is refused, the
\* database fails), the pending client is disconnected and the entry of the
\* phone is gone from the pending map, so that the next verify_code for the
\* phone finds no pending authentication.
C11_FailureDiscardsPending ==
    [][(/\ Finishes /\ ret'.op = "verify_code" /\ ret'.overlap = "none"
        /\ ret'.res \in {"SignInError", "DbError"})
       => /\ ~handles'[ret'.h].connected
          /\ ret'.phone \notin DOMAIN pending_auth'
    ]_vars

\* C12: when a verify_code called without a password (overlapping no other
\* call) fails with the two-factor requirement, the pending authentication
\* of the phone stays usable: the entry is still there and its client is
\* still connected, so that the call can be repeated with the password.
C12_TwoFactorKeepsPending ==
    [][(/\ Finishes /\ ret'.op = "verify_code" /\ ret'.overlap = "none"
        /\ ret'.res = "TwoFactorRequired")
       => /\ ~ret'.password
          /\ ret'.phone \in DOMAIN pending_auth'
          /\ pending_auth'[ret'.phone] = ret'.h
          /\ handles'[ret'.h].connected
    ]_vars

\* C13: a verify_code that overlaps no other call and succeeds has inserted
\* exactly one row, cached the pending client under the new id, set the
\* active pointer to it and deleted the entry of the phone, all in the step
\* of the insert, and this still holds when it returns.
C13_VerifySuccess ==
    [][/\ rows' # rows => Cardinality(DOMAIN rows') = Cardinality(DOMAIN rows) + 1
       /\ \A r \in InFlight :
             (r.pc = "vc_insert" /\ r.overlap = "none" /\ rows' # rows /\ Moved(r))
             => /\ r.phone \in DOMAIN pending_auth /\ pending_auth[r.phone] = r.h
                /\ DOMAIN rows' = DOMAIN rows \cup {nextId}
                /\ nextId \notin DOMAIN rows
                /\ clients' = (nextId :> r.h) @@ clients
                /\ active_session_id' = nextId
                /\ pending_auth' = Without(pending_auth, r.phone)
       /\ (Finishes /\ ret'.op = "verify_code" /\ ret'.res = "ok" /\ ret'.overlap = "none")
          => /\ ret'.pc = "vc_get" /\ rows' = rows
             /\ ret'.sid \in DOMAIN rows
             /\ ret'.sid \in DOMAIN clients' /\ clients'[ret'.sid] = ret'.h
             /\ ret'.val = ret'.h
             /\ handles'[ret'.h].acct = ret'.sid /\ handles'[ret'.h].phone = ret'.phone
             /\ active_session_id' = ret'.sid
             /\ ret'.phone \notin DOMAIN pending_auth'
    ]_vars

C13_Witness ==
    /\ ret.op = "verify_code" /\ ret.res = "ok" /\ ret.overlap = "none"
    /\ ret.sid \in DOMAIN rows /\ ret.sid \in DOMAIN clients /\ clients[ret.sid] = ret.h
    /\ active_session_id = ret.sid /\ handles[ret.h].connected
    /\ ret.phone \notin DOMAIN pending_auth

\* C14: a verify_code for a phone without a pending entry fails at once with
\* NoPendingAuth: it makes no transport call and leaves the table, the cache,
\* the active pointer, the pending map and every handle as they are; only a
\* call for a phone with an entry goes on to sign in.
C14_NoPendingAuth ==
    [][/\ (Finishes /\ ret'.op = "verify_code" /\ ret'.pc = "idle")
          => /\ ret'.phone \notin DOMAIN pending_auth
             /\ ret'.res = "NoPendingAuth"
             /\ ret'.h = NoHandle /\ ret'.val = NoHandle
             /\ rows' = rows /\ nextId' = nextId /\ clients' = clients
             /\ active_session_id' = active_session_id
             /\ pending_auth' = pending_auth /\ handles' = handles
       /\ (Finishes /\ ret'.op = "verify_code" /\ ret'.res = "NoPendingAuth")
          => ret'.pc = "idle"
       /\ \A r \in BagToSet(calls') :
             (r.op = "verify_code" /\ r.pc = "vc_sign_in" /\ Entered(r))
             => r.phone \in DOMAIN pending_auth /\ r.h = pending_auth[r.phone]
    ]_vars

\* A second verify_code after the first one succeeded and deleted the entry.
C14_Witness ==
    /\ ret.op = "verify_code" /\ ret.res = "NoPendingAuth" /\ ret.pc = "idle"
    /\ ret.phone \notin DOMAIN pending_auth
    /\ rows # << >> /\ active_session_id # NoId

\* C15: once the 120 seconds of a token's cleanup task are over the token is
\* out of the map for good, whatever polls are in flight: the task pops a
\* token that is still stored and awaits the disconnect of its client, which
\* leaves the client disconnected when it succeeds.  A poll that starts after
\* that, or for a token that was never stored, answers expired at once and
\* changes nothing.
C15_QrExpiry ==
    [][/\ \A t \in DOMAIN cleanup :
             /\ cleanup[t].pc # "sleep" => t \notin DOMAIN qr_login_states
             /\ (cleanup[t].pc = "sleep" /\ cleanup'[t].pc # "sleep")
                => IF t \in DOMAIN qr_login_states
                   THEN /\ t \notin DOMAIN qr_login_states'
                        /\ cleanup'[t] = CleanupTask("disc", qr_login_states[t], "")
                   ELSE cleanup'[t].pc = "done"
             /\ (cleanup[t].pc = "disc" /\ cleanup'[t].res = "ok" /\ cleanup[t].h \in DOMAIN handles')
                => ~handles'[cleanup[t].h].connected
       /\ DOMAIN qr_login_states \subseteq DOMAIN cleanup
       /\ (Finishes /\ ret'.op = "check_qr_status" /\ ret'.pc = "idle")
          => /\ ret'.res = "expired"
             /\ ret'.token \notin DOMAIN qr_login_states
             /\ qr_login_states' = qr_login_states /\ cleanup' = cleanup
             /\ rows' = rows /\ clients' = clients /\ handles' = handles
       /\ \A r \in BagToSet(calls') :
             (r.op = "check_qr_status" /\ r.pc = "qs_wait" /\ Entered(r))
             => /\ r.token \in DOMAIN cleanup
                /\ cleanup[r.token].pc = "sleep"
    ]_vars

\* The cleanup task has disconnected the client and a later poll of the
\* token is answered expired.
C15_Witness ==
    /\ ret.op = "check_qr_status" /\ ret.res = "expired"
    /\ ret.token \in DOMAIN cleanup
    /\ cleanup[ret.token].pc = "done" /\ cleanup[ret.token].res = "ok"

\* C16: a poll ends with one of the five statuses, an exception anywhere in
\* it giving error.  When it ends with success or error the token is out of
\* the map and the temporary client is disconnected, and success is only
\* answered after import_session_string has returned the new account.
C16_PollEndsClean ==
    [][(Finishes /\ ret'.op = "check_qr_status")
       => /\ ret'.res \in {"expired", "pending", "pending_refreshed", "success", "error"}
          /\ ret'.res \in {"success", "error"}
             => /\ ret'.token \notin DOMAIN qr_login_states'
                /\ ~handles'[ret'.tmp].connected
          /\ ret'.res = "success"
             => /\ ret'.pc = "qs_close"
                /\ ret'.sid \in DOMAIN rows'
                /\ ret'.val = ret'.h /\ ret'.h # NoHandle
    ]_vars

\* C17: a poll whose wait timed out answers pending, directly or after a
\* recreate() of the expired login ticket; none of its steps touches the
\* entry of the token, the client, the table, the cache or the active
\* pointer, and the call has constructed no client of its own.
C17_TimeoutKeepsPending ==
    [][/\ (Finishes /\ ret'.op = "check_qr_status" /\ ret'.res \in {"pending", "pending_refreshed"})
          => /\ ret'.pc = (IF ret'.res = "pending" THEN "qs_wait" ELSE "qs_recreate")
             /\ qr_login_states' = qr_login_states /\ cleanup' = cleanup
             /\ rows' = rows /\ nextId' = nextId /\ clients' = clients
             /\ active_session_id' = active_session_id
             /\ handles'[ret'.tmp] = handles[ret'.tmp]
             /\ ret'.h = NoHandle /\ ret'.sid = NoId
             /\ ret'.res = "pending_refreshed"
                => /\ handles[ret'.tmp].connected
       /\ \A r \in InFlight :
             (/\ r.pc = "qs_wait" /\ Moved(r)
              /\ CopiesIn([r EXCEPT !.pc = "qs_recreate"], calls')
                   > CopiesIn([r EXCEPT !.pc = "qs_recreate"], calls))
             => /\ qr_login_states' = qr_login_states /\ cleanup' = cleanup
                /\ rows' = rows /\ nextId' = nextId /\ clients' = clients
                /\ active_session_id' = active_session_id
                /\ handles' = handles
    ]_vars

\* The ticket was regenerated: the entry and its connected client are still
\* in place and no account exists.
C17_Witness ==
    /\ ret.op = "check_qr_status" /\ ret.res = "pending_refreshed"
    /\ ret.token \in DOMAIN qr_login_states /\ qr_login_states[ret.token] = ret.tmp
    /\ handles[ret.tmp].connected
    /\ rows = << >> /\ clients = << >> /\ active_session_id = NoId

\* C18: an import_session_string whose credential connects but is not
\* authorized awaits the disconnect of its client and raises
\* InvalidCredential (or the failure of that disconnect): with
\* InvalidCredential the client is disconnected, and no step of the
\* rejection touches the table, the cache or the active pointer.  With an
\* authorized credential the insert adds exactly one row, caches the client
\* under the new id and sets the pointer to it, and a call that overlapped
\* nothing returns the account with its id in the cache.
C18_ImportSessionString ==
    [][/\ (Finishes /\ ret'.op = "import_session_string" /\ ret'.pc = "im_disc")
          => /\ ret'.res \in {"InvalidCredential", "TransportError"}
             /\ ret'.res = "InvalidCredential" => ~handles'[ret'.h].connected
             /\ ret'.sid = NoId /\ ret'.val = NoHandle
             /\ ret'.h \notin Range(clients')
       /\ (Finishes /\ ret'.op = "import_session_string" /\ ret'.res = "InvalidCredential")
          => ret'.pc = "im_disc"
       /\ \A r \in InFlight :
             (r.op = "import_session_string" /\ r.pc \in {"im_auth", "im_disc"} /\ Moved(r))
             => /\ rows' = rows /\ nextId' = nextId /\ clients' = clients
                /\ active_session_id' = active_session_id
       /\ rows' # rows => Cardinality(DOMAIN rows') = Cardinality(DOMAIN rows) + 1
       /\ \A r \in InFlight :
             (r.op = "import_session_string" /\ r.pc = "im_insert" /\ rows' # rows /\ Moved(r))
             => /\ DOMAIN rows' = DOMAIN rows \cup {nextId} /\ nextId \notin DOMAIN rows
                /\ clients' = (nextId :> r.h) @@ clients
                /\ active_session_id' = nextId
                /\ handles[r.h].connected
       /\ (/\ Finishes /\ ret'.op = "import_session_string" /\ ret'.res = "ok"
           /\ ret'.overlap = "none")
          => /\ ret'.pc = "im_get"
             /\ ret'.sid \in DOMAIN rows'
             /\ ret'.sid \in DOMAIN clients' /\ clients'[ret'.sid] = ret'.h
             /\ ret'.val = ret'.h
             /\ active_session_id' = ret'.sid
    ]_vars

\* A rejected import after an authorized one: the earlier account is still
\* the active one.
C18_Witness ==
    /\ ret.op = "import_session_string" /\ ret.res = "InvalidCredential"
    /\ ~handles[ret.h].connected
    /\ active_session_id # NoId /\ active_session_id \in DOMAIN clients
    /\ clients[active_session_id] # ret.h

\* C19: when import_session_file returns or raises after it has written the
\* decoded bytes to a temporary file, that file no longer exists, on every
\* way out (imported, not authorized, connect failed, import failed); the
\* only temporary files that exist belong to requests still in flight.
C19_TempFileRemoved ==
    /\ ret.op = "import_session_file" => ret.file \notin temp_files
    /\ temp_files = {r.file : r \in {q \in InFlight : q.op = "import_session_file"}}
    /\ \A r \in InFlight : r.op = "import_session_file" => r.file # NoFile

\* The import failed after the file had been converted.
C19_Witness ==
    /\ ret.op = "import_session_file" /\ ret.file # NoFile
    /\ ret.res = "TransportError" /\ ret.pc = "im_connect"
    /\ ret.file \notin temp_files

\* The awaits of clone_chat at which a send call is in flight.
SendPcs == {"cl_send_file", "cl_send_caption", "cl_send_message"}

\* C20: within one clone_chat the list the loop iterates is the history in
\* chronological order (oldest first, although it is delivered newest
\* first), and the send calls are issued along that list: their messages
\* never go back, each is a message of the list the loop has reached, and
\* the one send that may be in flight is for the message the loop is at, so
\* that a later message is sent only after the sends of the earlier ones
\* have returned or raised.
C20_CloneOrder ==
    \A r \in InFlight \cup {ret} :
       r.op = "clone_chat"
       => /\ \A j, k \in 1..Len(r.msgs) : j < k => r.msgs[j].id < r.msgs[k].id
          /\ \A j, k \in 1..Len(r.log) : j < k => r.log[j] <= r.log[k]
          /\ \A j \in 1..Len(r.log) :
                \E k \in 1..Len(r.msgs) :
                   /\ k <= r.i /\ r.msgs[k].id = r.log[j]
                   /\ r.msgs[k].kind # "empty"
                   /\ r.msgs[k].kind = history[Len(history) - r.log[j] + 1]
          /\ (r.res = "" /\ r.pc \in SendPcs)
             => /\ r.i \in 1..Len(r.msgs) /\ r.log # << >>
                /\ r.log[Len(r.log)] = r.msgs[r.i].id
          /\ r.res = "ok" => r.i = Len(r.msgs) + 1

\* Two messages were sent, the older one first.
C20_Witness ==
    /\ ret.op = "clone_chat" /\ ret.res = "ok"
    /\ Len(history) >= 2 /\ Len(ret.log) >= 2
    /\ ret.log[1] < ret.log[Len(ret.log)]

\* C21: clone_chat in encrypted mode without a password raises the
\* validation error in its first step, before any await: it has obtained no
\* client, fetched and sent nothing, created no CloneProgress, and the
\* connection cache, the handles, the operation map and the key registry
\* are as they were; no such call is ever in flight.
C21_EncryptedNeedsPassword ==
    [][/\ \A r \in InFlight :
             r.op = "clone_chat" => ~(r.mode = "encrypted" /\ r.encryption_password = NoPassword)
       /\ (/\ ret = NoCall /\ ret'.op = "clone_chat"
           /\ ret'.mode = "encrypted" /\ ret'.encryption_password = NoPassword)
          => /\ ret'.res = "ValueError" /\ ret'.pc = "idle"
             /\ ret'.h = NoHandle /\ ret'.opid = NoOp
             /\ ret'.msgs = << >> /\ ret'.log = << >>
             /\ UNCHANGED <<clients, handles, lastConn, operations, keys>>]_vars

\* The validation error has been raised.
C21_Witness ==
    /\ ret.op = "clone_chat" /\ ret.res = "ValueError"
    /\ ret.mode = "encrypted" /\ ret.encryption_password = NoPassword

\* The last send call issued for message id has raised.
FinalSendFailed(r, id) ==
    \E j \in 1..Len(r.outcomes) :
       /\ r.log[j] = id /\ ~r.outcomes[j]
       /\ \A k \in (j + 1)..Len(r.log) : r.log[k] # id

\* C22: a clone_chat that returns has gone through its whole list and its
\* operation is completed; at least one send was issued for every message
\* with text; if the sending failed for k of the N messages with text, the
\* error log has exactly k entries, one naming each failed message,
\* error_count is k, and cloned_count is N - k (plus the messages that have
\* media only, which never count as errors).
C22_FailuresCounted ==
    (ret.op = "clone_chat" /\ ret.res = "ok")
    => LET ms == ret.msgs
           T == {k \in 1..Len(ms) : HasText(ms[k])}
           F == {k \in T : FinalSendFailed(ret, ms[k].id)}
           M == {k \in 1..Len(ms) : ms[k].kind = "media"}
           errors == operations[ret.opid].errors
       IN  /\ ret.i = Len(ms) + 1
           /\ operations[ret.opid].status = "completed"
           /\ \A k \in T : \E j \in 1..Len(ret.log) : ret.log[j] = ms[k].id
           /\ Len(errors) = Cardinality(F)
           /\ {errors[j] : j \in 1..Len(errors)} = {ms[k].id : k \in F}
           /\ ret.error_count = Cardinality(F)
           /\ ret.cloned_count = Cardinality(T \ F) + Cardinality(M)

\* Of two messages with text, the sending failed for one.
C22_Witness ==
    /\ ret.op = "clone_chat" /\ ret.res = "ok"
    /\ Len(ret.msgs) >= 2 /\ \A k \in 1..Len(ret.msgs) : HasText(ret.msgs[k])
    /\ ret.error_count = 1 /\ ret.cloned_count = Len(ret.msgs) - 1

\* C23: in encrypted mode every text a clone_chat has sent, as message body
\* or as caption, on the direct paths and on the fallbacks after a failed
\* download, send_file or caption send, carries the sentinel and decrypts
\* under the call's password and the target chat id to the text of the
\* source message it was sent for; a caption is empty only when the source
\* message has no text.
C23_EncryptedTexts ==
    \A r \in InFlight \cup {ret} :
       (r.op = "clone_chat" /\ r.mode = "encrypted")
       => /\ Len(r.sent) = Len(r.log)
          /\ \A j \in 1..Len(r.sent) :
                LET m == CHOOSE m \in Range(r.msgs) : m.id = r.log[j] IN
                IF HasText(m)
                THEN /\ r.sent[j].enc
                     /\ decrypt_text(r.sent[j], r.encryption_password, TargetChat) = Plain(m.id)
                ELSE r.sent[j] = NoText

\* An encrypted clone has sent a file with a caption and, after that
\* failed, the caption alone.
C23_Witness ==
    /\ ret.op = "clone_chat" /\ ret.res = "ok" /\ ret.mode = "encrypted"
    /\ \E j \in 1..(Len(ret.log) - 1) :
          /\ ret.log[j] = ret.log[j + 1]
          /\ ret.sent[j] # NoText /\ ~ret.outcomes[j]

\* The clone_chat calls in flight or just finished.
Clones(cs, rt) == {r \in BagToSet(cs) \cup {rt} : r.op = "clone_chat"}

\* The registry maps chat_id to password.
Registered(ks, chat_id, password) == chat_id \in DOMAIN ks /\ ks[chat_id] = password

\* C24 as stated: while an encrypted clone that has issued a send is in
\* flight, the registry maps the target chat to its password unless the
\* entry has been removed.
C24_KeyWhileSending ==
    \A r \in Clones(calls, NoCall) :
       (r.mode = "encrypted" /\ r.log # << >>)
       => (TargetChat \in DOMAIN keys => keys[TargetChat] = r.encryption_password)

\* C24, amended: the step of an encrypted clone that creates its progress
\* and starts the loop, issuing the first send if there is one, leaves its
\* password registered for the target chat; no later step of the clone
\* changes the registry, so that the entry stays until another caller
\* removes or replaces it.
C24_KeyBeforeFirstSend ==
    [][/\ \A r \in Clones(calls', ret') :
             (/\ r.mode = "encrypted" /\ r.opid # NoOp
              /\ \A q \in Clones(calls, ret) : q.opid = NoOp)
             => Registered(keys', TargetChat, r.encryption_password)
       /\ \A q \in Clones(calls, NoCall) :
             (/\ q.mode = "encrypted" /\ q.opid # NoOp
              /\ ~Registered(keys', TargetChat, q.encryption_password)
              /\ Registered(keys, TargetChat, q.encryption_password))
             => (calls' = calls /\ ret' = ret)]_vars

\* An encrypted clone has issued a send and its password is registered.
C24_Witness ==
    \E r \in Clones(calls, NoCall) :
       /\ r.mode = "encrypted" /\ r.log # << >>
       /\ Registered(keys, TargetChat, r.encryption_password)

\* C25: a clone_chat starts on a message of its list from the start of the
\* loop or from the sleep that follows the message before, never straight
\* from the except clause that records a failed message.
C25_SleepAfterEveryItem ==
    \A r \in Clones(calls, NoCall) : r.after # "error"

\* C26: an operation of the map whose clone_chat is no longer running,
\* because it returned or because it was stopped by an error or a
\* cancellation, is in a terminal status, completed or failed.
C26_OperationEndsTerminal ==
    \A k \in DOMAIN operations :
       (\A r \in InFlight : r.opid # k)
       => operations[k].status \in {"completed", "failed"}

\* C27: a message with neither text nor media is skipped: it adds one to
\* skipped_count and nothing to cloned_count, no send is issued for it and
\* it gets no entry in the error log, so that at the end the cloned and the
\* failed messages are the ones with content.  (A call stands at place i
\* of its list: the places before i are done.)
C27_EmptySkipped ==
    \A r \in Clones(calls, ret) :
       r.opid # NoOp
       => LET Before(kinds) == {k \in 1..(r.i - 1) : r.msgs[k].kind \in kinds}
              errors == operations[r.opid].errors
              empty == {r.msgs[k].id : k \in Before({"empty"})}
          IN  /\ r.skipped_count = Cardinality(empty)
              /\ \A j \in 1..Len(r.log) : r.log[j] \notin empty
              /\ \A j \in 1..Len(errors) : errors[j] \notin empty
              /\ r.res = "ok"
                 => r.cloned_count + Len(errors) = Cardinality(Before({"text", "media", "both"}))

\* A clone has skipped a message and sent another.
C27_Witness ==
    /\ ret.op = "clone_chat" /\ ret.res = "ok"
    /\ ret.skipped_count >= 1 /\ ret.log # << >>

\* C28: the error log kept for an operation never holds more entries than
\* the number to_dict reports.
C28_ErrorLogBounded ==
    \A k \in DOMAIN operations : Len(operations[k].errors) <= ErrorsShown

\* A list_sessions call has run in this step.
ListStep ==
    \/ \E r \in BagToSet(calls') : r.op = "list_sessions" /\ Entered(r)
    \/ \E r \in InFlight : r.op = "list_sessions" /\ Moved(r)

\* The flags of list f are the state of the connection cache.
LiveFlags(f) ==
    /\ DOMAIN f = DOMAIN rows
    /\ \A s \in DOMAIN f :
          f[s] <=> (s \in DOMAIN clients /\ handles[clients[s]].connected)

\* C29: list_sessions flags an account as connected exactly when, as the
\* list is built, the connection cache holds a handle for it that is
\* connected; the list returned is the list built; and no step of the call
\* changes the connection cache, the handles, the active pointer or the
\* persisted accounts.
C29_ListReadsCache ==
    [][/\ \A r \in InFlight :
             (r.op = "list_sessions" /\ r.pc = "ls_select" /\ Moved(r))
             => \E n \in BagToSet(calls') :
                   /\ n = [r EXCEPT !.pc = "ls_commit", !.sessions = n.sessions]
                   /\ LiveFlags(n.sessions)
       /\ \A r \in InFlight :
             (r.op = "list_sessions" /\ r.pc = "ls_commit" /\ Moved(r))
             => ret' = [r EXCEPT !.res = "ok"]
       /\ ListStep => UNCHANGED <<clients, handles, active_session_id, rows>>]_vars

\* A list has been returned that flags an account as not connected whose
\* handle is cached but has lost its connection.
C29_Witness ==
    /\ ret.op = "list_sessions" /\ ret.res = "ok"
    /\ \E s \in DOMAIN ret.sessions :
          /\ ~ret.sessions[s]
          /\ s \in DOMAIN clients /\ ~handles[clients[s]].connected

\* An export_session_string call has run in this step.
ExportStep ==
    \/ StartStep /\ Finishes /\ ret'.op = "export_session_string"
    \/ \E r \in BagToSet(calls') : r.op = "export_session_string" /\ Entered(r)
    \/ \E r \in InFlight : r.op = "export_session_string" /\ Moved(r)

\* C30: export_session_string(id) called while the cache holds a handle for
\* id returns in that step what this handle exports; called while it holds
\* none it reads the table, and returns the decrypted stored credential when
\* the row is there and raises not-found when it is not; no step of the
\* call changes the connection cache or a handle.
C30_ExportPrefersLive ==
    [][/\ (StartStep /\ Finishes /\ ret'.op = "export_session_string")
          => /\ ret'.arg \in DOMAIN clients
             /\ ret'.res = "ok" /\ ret'.val = clients[ret'.arg]
       /\ \A r \in BagToSet(calls') :
             (r.op = "export_session_string" /\ Entered(r))
             => r.arg \notin DOMAIN clients /\ r.sid = r.arg /\ r.pc = "ex_select"
       /\ \A r \in InFlight :
             (r.op = "export_session_string" /\ Moved(r))
             => /\ ret'.op = "export_session_string" /\ ret'.arg = r.arg
                /\ ret'.val = NoHandle
                /\ ret'.res = IF r.arg \in DOMAIN rows THEN "ok" ELSE "NotFound"
       /\ ExportStep => UNCHANGED <<clients, handles>>]_vars

\* The credential of an account has been exported from its cached handle
\* although the table holds its row.
C30_Witness ==
    /\ ret.op = "export_session_string" /\ ret.res = "ok"
    /\ ret.arg \in DOMAIN clients /\ ret.val = clients[ret.arg]
    /\ ret.arg \in DOMAIN rows

\* C31: decrypt_text of what encrypt_text made of a non-empty text, under
\* the same password and chat id, is that text; encrypt_text returns the
\* empty text as it is; decrypt_text returns a text without the sentinel as
\* it is.
C31_TextRoundTrip ==
    /\ (crypto.pc = "decrypted" /\ crypto.text # << >> /\ crypto.other = crypto.password)
       => crypto.message.kind = "sealed" /\ crypto.out = Str(crypto.text)
    /\ (crypto.pc = "encrypted" /\ crypto.text = << >>) => crypto.message = Str(<< >>)
    /\ (crypto.pc = "shown" /\ crypto.message.kind # "sealed") => crypto.out = crypto.message

\* A text with a two-byte character, filling whole blocks, has come back.
C31_Witness ==
    /\ crypto.pc = "decrypted" /\ crypto.other = crypto.password
    /\ Len(utf8_encode(crypto.text)) = BlockBytes
    /\ \E k \in DOMAIN crypto.text : crypto.text[k] = WideChar
    /\ crypto.out = Str(crypto.text)

\* C32: decrypt_text of what encrypt_text made of a text, under another
\* password, is the placeholder and not the text; decrypt_text returns a
\* text (never raises) for whatever follows the sentinel.
C32_WrongPasswordPlaceholder ==
    /\ (crypto.pc = "decrypted" /\ crypto.text # << >> /\ crypto.other # crypto.password)
       => crypto.out = Placeholder /\ crypto.out # Str(crypto.text)
    /\ (crypto.pc = "shown" /\ crypto.message.kind = "sealed")
       => crypto.out.kind \in {"plain", "failed"}

\* C33: decrypt_data of what encrypt_data made of the data, under the same
\* password, is the data; a backup with a changed byte in its magic header
\* is rejected as of invalid format before a key is derived; under another
\* password the decryption fails and returns no data.
C33_EnvelopeRoundTrip ==
    crypto.pc = "opened"
    => /\ (~crypto.damaged /\ crypto.other = crypto.password)
          => crypto.out.res = "ok" /\ crypto.out.data = crypto.data
       /\ crypto.damaged => crypto.out.res = "InvalidFormat" /\ ~crypto.out.derived
       /\ (~crypto.damaged /\ crypto.other # crypto.password) => crypto.out.res = "ValueError"

\* C34: every account id in the connection cache has a persisted row, in
\* every state (a get_client in flight when remove_session completes does
\* not insert a connection for the removed account).
C34_CachedHasRow == \A i \in DOMAIN clients : i \in DOMAIN rows

\* C35: a connected handle that no call in flight holds is referenced by the
\* connection cache or by a pending authentication: what an operation has
\* opened and connected is, once the operation has returned or raised,
\* cached, pending or disconnected.
C35_NoStrayConnection ==
    \A h \in DOMAIN handles :
       (handles[h].connected /\ \A r \in InFlight : h \notin {r.h, r.tmp})
       => h \in Range(clients) \cup Range(pending_auth)

\* C36: a verify_code inserts a row only for a client no account was made
\* from before (one pending authentication, at most one account), and once
\* no verify_code is running every cached handle is connected.
C36_OneAccountPerAuth ==
    [][/\ \A r \in InFlight :
             (r.op = "verify_code" /\ Moved(r) /\ rows' # rows) => handles[r.h].acct = NoId
       /\ (ret'.op # "verify_code" /\ \A r \in BagToSet(calls') : r.op # "verify_code")
          => \A i \in DOMAIN clients' : handles'[clients'[i]].connected]_vars

\* C37: a remove_session(id) that found a cached connection ends, also
\* beside another remove_session(id), with success or not-found (or with
\* the transport's own disconnect failure) and never with an error of its
\* own; after success or not-found the account is gone.
C37_ConcurrentRemove ==
    [][(Finishes /\ ret'.op = "remove_session" /\ ret'.h # NoHandle)
       => /\ ret'.res \in {"ok", "not_found", "TransportError"}
          /\ ret'.res \in {"ok", "not_found"} => ret'.sid \notin DOMAIN rows']_vars

\* C38: a disconnect_all() returns normally, also when a get_client or a
\* remove_session writes the cache while it awaits a disconnect, and none of
\* the connections it went through is then both cached and connected.
C38_SweepTerminates ==
    [][(Finishes /\ ret'.op = "disconnect_all")
       => /\ ret'.res = "ok"
          /\ \A i \in ret'.seen :
                i \in DOMAIN clients' => ~handles'[clients'[i]].connected]_vars

\* C39: in the summary a clone_chat returns, total_messages is the sum of
\* cloned_count, skipped_count and error_count, and cloned_count counts only
\* messages for which a send_message or send_file to the target chat
\* returned without raising.
C39_SummaryCounts ==
    (ret.op = "clone_chat" /\ ret.res = "ok")
    => LET ms == ret.msgs
           delivered == {k \in 1..Len(ms) :
                           \E j \in 1..Len(ret.outcomes) :
                              ret.log[j] = ms[k].id /\ ret.outcomes[j]}
       IN  /\ Len(ms) = ret.cloned_count + ret.skipped_count + ret.error_count
           /\ ret.cloned_count <= Cardinality(delivered)

\* C40: a clone_chat that registers its operation does so under an
\* identifier that is not in the map yet, so that no record already
\* registered is replaced, also when source and target chat are the same.
C40_OperationIdsDistinct ==
    [][\A r \in InFlight :
          (r.pc = "cl_fetch" /\ Moved(r) /\ operations' # operations)
          => \A k \in DOMAIN operations : operations'[k] = operations[k]]_vars

====
